---- MODULE Spec2Model ----
(***************************************************************************)
(* Life ecosystem simulation: the class-based core.                        *)
(*   Grid              src/src/simulation/grid.ts                          *)
(*   entity behaviours src/scripts/optimize.ts   (from line 160)           *)
(*   SimulationEngine  src/src/config/defaults.ts (from line 240)          *)
(*                                                                         *)
(* Math.random() is modelled by the set of results a call can produce:     *)
(* an operator that draws returns the SET of its possible results and the  *)
(* actions choose one with \E.                                             *)
(*                                                                         *)
(* Entity records are JavaScript objects shared between the grid's Map and *)
(* the per-tick snapshot arrays.  A record is mutated only by its own      *)
(* update, and the engine writes it back to the grid right after that      *)
(* update, so records are modelled as values: the snapshot holds the value *)
(* at snapshot time, the update produces the mutated value `ent`.          *)
(***************************************************************************)
EXTENDS Integers, Sequences, FiniteSets, TLC

\* ------------------------------------------------------------------ bounds
\* The grid is 255 x 255 in the source; the model checks a small one.
GRID_WIDTH == 3
GRID_HEIGHT == 3
GRID_SIZE == GRID_WIDTH * GRID_HEIGHT
\* 500 in the source.
MAX_HISTORY_LENGTH == 2
\* tick() is not started once state.tick has reached MaxTick (MaxTickControl in
\* the specification that also drives the running flag and the game speed).
MaxTick == 2
MaxTickControl == 1
\* with a kind absent from the start tick() is not started once state.tick has
\* reached MaxTickAbsent
MaxTickAbsent == 2
\* on a crowded grid tick() is not started once state.tick has reached MaxTickCrowd
MaxTickCrowd == 2
\* the calls on a bare grid place at most MaxPlaced entities
MaxPlaced == 2
\* the attributes an entity is given before its update is called on a bare grid
MaxAge == 4
MaxMeals == 1
MaxFood == 1
\* seeding beyond the capacity of the grid: the position draws explored are the
\* first SeedChoices empty cells in index order, and the miss
SeedChoices == 2
\* the radius of a search on a bare grid is at most MaxRadius
MaxRadius == 2
\* a wolf among others: the entities placed before updateWolf, and the age of
\* the wolf (at age 1 it enters the window of death of old age)
MaxPack == 4
MaxPackAge == 1
\* two engines: tick() is not started once state.tick has reached MaxTickPair,
\* and no configuration object is copied once MaxObjects objects exist
MaxTickPair == 1
MaxObjects == 7
\* two engines: a seeding draw is one of the first PairSeedChoices empty cells
PairSeedChoices == 1
\* the typed-array world: config.gridSize (255 in the source), the entities
\* spawned before update(), and the update() calls
WORLD_SIZE == 3
MaxSpawned == 2
\* the seeded World: the grass draws of seed() succeed on at most
\* MaxSeededGrass cells
MaxSeededGrass == 1
\* ... and its sheep and wolves are drawn onto the cells 0..MaxSeededIndex
MaxSeededIndex == 4
MaxWorldTick == 1

\* --------------------------------------------------------- program constants
EMPTY == 0
GRASS == 1
SHEEP == 2
WOLF == 3
HISTORY_INTERVAL == 1
\* getRandomEmptyPosition(maxAttempts = 100)
DefaultMaxAttempts == 100

\* null
NULL == [type |-> -1]

DIRECTIONS ==
    << [dx |-> -1, dy |-> -1], [dx |-> 0, dy |-> -1], [dx |-> 1, dy |-> -1],
       [dx |-> -1, dy |-> 0],                         [dx |-> 1, dy |-> 0],
       [dx |-> -1, dy |-> 1],  [dx |-> 0, dy |-> 1],  [dx |-> 1, dy |-> 1] >>

Abs(n) == IF n < 0 THEN -n ELSE n
\* Math.sign left out: the whole difference
signIsDifference(n) == n
\* Math.sign
Sign(n) == IF n > 0 THEN 1 ELSE IF n < 0 THEN -1 ELSE 0
Range(s) == {s[i] : i \in 1..Len(s)}

Pos(x, y) == [x |-> x, y |-> y]
AllCells == {Pos(x, y) : x \in 0..(GRID_WIDTH - 1), y \in 0..(GRID_HEIGHT - 1)}

\* ------------------------------------------------------------ entity factories
createGrass(x, y) == [type |-> GRASS, x |-> x, y |-> y, age |-> 0]
createSheep(x, y) ==
    [type |-> SHEEP, x |-> x, y |-> y, age |-> 0, foodEaten |-> 0, ticksSinceLastMeal |-> 0]
createWolf(x, y) ==
    [type |-> WOLF, x |-> x, y |-> y, age |-> 0, foodEaten |-> 0, ticksSinceLastMeal |-> 0]

createOfType(t, x, y) ==
    IF t = GRASS THEN createGrass(x, y)
    ELSE IF t = SHEEP THEN createSheep(x, y) ELSE createWolf(x, y)

\* ------------------------------------------------------------------- Map
\* A JavaScript Map: a sequence of [key, val] in insertion order.
MapHas(m, k) == \E i \in 1..Len(m) : m[i].key = k
MapIndex(m, k) == CHOOSE i \in 1..Len(m) : m[i].key = k
MapGet(m, k) == IF MapHas(m, k) THEN m[MapIndex(m, k)].val ELSE NULL
\* set keeps the position of an existing key and appends a new one
MapSet(m, k, v) ==
    IF MapHas(m, k)
    THEN [m EXCEPT ![MapIndex(m, k)] = [key |-> k, val |-> v]]
    ELSE Append(m, [key |-> k, val |-> v])
MapDelete(m, k) ==
    LET Keep(e) == e.key # k IN SelectSeq(m, Keep)
MapValues(m) == [i \in 1..Len(m) |-> m[i].val]

\* ------------------------------------------------------------------- Grid
\* A grid is [typeGrid : [0..GRID_SIZE-1 -> 0..3], entities : Map].
NewGrid == [typeGrid |-> [i \in 0..(GRID_SIZE - 1) |-> EMPTY], entities |-> << >>]

toIndex(x, y) == y * GRID_WIDTH + x
toKey(x, y) == << x, y >>

\* isValidPosition, but only the index into the type array is tested
isValidIndex(x, y) == toIndex(x, y) >= 0 /\ toIndex(x, y) < GRID_SIZE

isValidPosition(x, y) == x >= 0 /\ x < GRID_WIDTH /\ y >= 0 /\ y < GRID_HEIGHT

getType(g, x, y) ==
    IF ~isValidPosition(x, y) THEN EMPTY ELSE g.typeGrid[toIndex(x, y)]

get(g, x, y) ==
    IF ~isValidPosition(x, y) THEN NULL ELSE MapGet(g.entities, toKey(x, y))

\* set, but clearing a cell leaves its record in the map
setKeepsRecord(g, x, y, entity) ==
    IF ~isValidPosition(x, y) THEN g
    ELSE IF entity = NULL
         THEN [g EXCEPT !.typeGrid[toIndex(x, y)] = EMPTY]
         ELSE [typeGrid |-> [g.typeGrid EXCEPT ![toIndex(x, y)] = entity.type],
               entities |-> MapSet(g.entities, toKey(x, y), entity)]

\* set, but an occupied cell keeps its entry of the type array
setKeepsType(g, x, y, entity) ==
    IF ~isValidPosition(x, y) THEN g
    ELSE IF entity = NULL
         THEN [typeGrid |-> [g.typeGrid EXCEPT ![toIndex(x, y)] = EMPTY],
               entities |-> MapDelete(g.entities, toKey(x, y))]
         ELSE [typeGrid |-> [g.typeGrid EXCEPT ![toIndex(x, y)] =
                                IF @ = EMPTY THEN entity.type ELSE @],
               entities |-> MapSet(g.entities, toKey(x, y), entity)]

set(g, x, y, entity) ==
    IF ~isValidPosition(x, y) THEN g
    ELSE IF entity = NULL
         THEN [typeGrid |-> [g.typeGrid EXCEPT ![toIndex(x, y)] = EMPTY],
               entities |-> MapDelete(g.entities, toKey(x, y))]
         ELSE [typeGrid |-> [g.typeGrid EXCEPT ![toIndex(x, y)] = entity.type],
               entities |-> MapSet(g.entities, toKey(x, y), entity)]

clear(g, x, y) == set(g, x, y, NULL)

gridReset(g) == [typeGrid |-> [i \in 0..(GRID_SIZE - 1) |-> EMPTY], entities |-> << >>]

\* getNeighborPositions, but the grid wraps around its edges
getNeighborPositionsWrapping(x, y) ==
    [i \in 1..Len(DIRECTIONS) |->
        Pos((x + DIRECTIONS[i].dx + GRID_WIDTH) % GRID_WIDTH,
            (y + DIRECTIONS[i].dy + GRID_HEIGHT) % GRID_HEIGHT)]

getNeighborPositions(x, y) ==
    LET all == [i \in 1..Len(DIRECTIONS) |->
                    Pos(x + DIRECTIONS[i].dx, y + DIRECTIONS[i].dy)]
        Valid(p) == isValidPosition(p.x, p.y)
    IN  SelectSeq(all, Valid)

getEmptyNeighbors(g, x, y) ==
    LET IsEmpty(p) == getType(g, p.x, p.y) = EMPTY
    IN  SelectSeq(getNeighborPositions(x, y), IsEmpty)

\* closestStep, but an entity as close as the closest so far replaces it
closestStepTakesLast(g, x, y, radius, entityType, dx, dy, closest) ==
    LET nx == x + dx
        ny == y + dy
        distance == Abs(dx) + Abs(dy)
    IN  IF ~isValidPosition(nx, ny) THEN closest
        ELSE IF dx = 0 /\ dy = 0 THEN closest
        ELSE IF distance > radius THEN closest
        ELSE IF getType(g, nx, ny) = entityType
                /\ (closest = NULL \/ distance <= closest.distance)
                /\ get(g, nx, ny) # NULL
             THEN [entity |-> get(g, nx, ny), distance |-> distance]
             ELSE closest

\* findClosestInRadius: the body of the two nested loops for one offset
closestStep(g, x, y, radius, entityType, dx, dy, closest) ==
    LET nx == x + dx
        ny == y + dy
        distance == Abs(dx) + Abs(dy)
    IN  IF ~isValidPosition(nx, ny) THEN closest
        ELSE IF dx = 0 /\ dy = 0 THEN closest
        ELSE IF distance > radius THEN closest
        ELSE IF getType(g, nx, ny) = entityType
                /\ (closest = NULL \/ distance < closest.distance)
                /\ get(g, nx, ny) # NULL
             THEN [entity |-> get(g, nx, ny), distance |-> distance]
             ELSE closest

\* the inner loop: dx from its current value to radius
RECURSIVE closestRow(_, _, _, _, _, _, _, _)
closestRow(g, x, y, radius, entityType, dx, dy, closest) ==
    IF dx > radius THEN closest
    ELSE LET step == closestStep(g, x, y, radius, entityType, dx, dy, closest)
         IN  IF step = NULL
             THEN closestRow(g, x, y, radius, entityType, dx + 1, dy, NULL)
             ELSE closestRow(g, x, y, radius, entityType, dx + 1, dy, step)

\* the outer loop: dy from its current value to radius
RECURSIVE closestRows(_, _, _, _, _, _, _)
closestRows(g, x, y, radius, entityType, dy, closest) ==
    IF dy > radius THEN closest
    ELSE LET row == closestRow(g, x, y, radius, entityType, -radius, dy, closest)
         IN  IF row = NULL
             THEN closestRows(g, x, y, radius, entityType, dy + 1, NULL)
             ELSE closestRows(g, x, y, radius, entityType, dy + 1, row)

\* findClosestInRadius, but nothing is ever found
findClosestSeesNothing(g, x, y, radius, entityType) == NULL

findClosestInRadius(g, x, y, radius, entityType) ==
    closestRows(g, x, y, radius, entityType, -radius, NULL)

\* getEntitiesOfType, but the first entity of the kind is left out
getEntitiesOfTypeButFirst(g, entityType) ==
    LET OfType(e) == e # NULL /\ e.type = entityType
        found == SelectSeq(MapValues(g.entities), OfType)
    IN  IF found = << >> THEN found ELSE Tail(found)

getEntitiesOfType(g, entityType) ==
    LET OfType(e) == e # NULL /\ e.type = entityType
    IN  SelectSeq(MapValues(g.entities), OfType)

getAllEntities(g) ==
    LET NotNull(e) == e # NULL IN SelectSeq(MapValues(g.entities), NotNull)

CountType(g, t) == Cardinality({i \in 0..(GRID_SIZE - 1) : g.typeGrid[i] = t})

getCounts(g) ==
    [grass |-> CountType(g, GRASS), sheep |-> CountType(g, SHEEP),
     wolves |-> CountType(g, WOLF)]

\* A rejection-sampling loop: up to maxAttempts independent draws, the first hit
\* is returned, null when every draw missed.  Its possible results are every
\* hit, and null as soon as one draw can miss (then all maxAttempts can).
sampleLoop(hits, misses, maxAttempts) ==
    IF maxAttempts <= 0 THEN {NULL}
    ELSE hits \cup (IF misses = {} THEN {} ELSE {NULL})

\* getRandomEmptyPosition(maxAttempts = 100): each draw is a uniform cell.
getRandomEmptyPosition(g) ==
    LET hits == {p \in AllCells : getType(g, p.x, p.y) = EMPTY}
    IN  sampleLoop(hits, AllCells \ hits, DefaultMaxAttempts)

getRandomEmptyNeighbor(g, x, y) ==
    LET emptyNeighbors == getEmptyNeighbors(g, x, y)
    IN  IF Len(emptyNeighbors) = 0 THEN {NULL} ELSE Range(emptyNeighbors)

\* The draws of one attempt of getRandomEmptyInRadius: dx uniform in
\* -radius..radius, then dy uniform in -(radius-|dx|)..(radius-|dx|).
RadiusDraws(radius) ==
    {d \in [dx : (-radius)..radius, dy : (-radius)..radius] :
        Abs(d.dy) <= radius - Abs(d.dx)}

radiusHit(g, cx, cy, d) ==
    /\ ~(d.dx = 0 /\ d.dy = 0)
    /\ isValidPosition(cx + d.dx, cy + d.dy)
    /\ getType(g, cx + d.dx, cy + d.dy) = EMPTY

getRandomEmptyInRadius(g, cx, cy, radius) ==
    IF radius <= 1 THEN getRandomEmptyNeighbor(g, cx, cy)
    ELSE LET hitDraws == {d \in RadiusDraws(radius) : radiusHit(g, cx, cy, d)}
         IN  sampleLoop({Pos(cx + d.dx, cy + d.dy) : d \in hitDraws},
                        RadiusDraws(radius) \ hitDraws, radius * radius * 2)

\* ------------------------------------------------------------ entity updates
\* shouldDieOfOldAge, but death comes exactly at lifeExpectancy
shouldDieAtLifeExpectancy(age, lifeExpectancy) == {age >= lifeExpectancy}

\* shouldDieOfOldAge, but past maxAge death is still a draw
shouldDieOfOldAgeNeverCertain(age, lifeExpectancy) ==
    IF 5 * age <= 4 * lifeExpectancy THEN {FALSE} ELSE {TRUE, FALSE}

\* Math.random() < chance with chance = (age - minAge) / (maxAge - minAge),
\* minAge = 0.8 * lifeExpectancy, maxAge = 1.2 * lifeExpectancy.  In integers:
\* age < minAge iff 5*age < 4*L, age >= maxAge iff 5*age >= 6*L, and the chance
\* is 0 exactly when 5*age = 4*L (a draw in [0,1) is never below 0).
shouldDieOfOldAge(age, lifeExpectancy) ==
    IF 5 * age < 4 * lifeExpectancy THEN {FALSE}
    ELSE IF 5 * age >= 6 * lifeExpectancy THEN {TRUE}
    ELSE IF 5 * age = 4 * lifeExpectancy THEN {FALSE}
    ELSE {TRUE, FALSE}

\* Math.random() * 100 < spreadRate
spreadDraw(spreadRate) ==
    (IF spreadRate > 0 THEN {TRUE} ELSE {}) \cup (IF spreadRate < 100 THEN {FALSE} ELSE {})

\* starved, one tick early
starvedEarly(ticksSinceLastMeal, starvationTime) ==
    ticksSinceLastMeal + 1 >= starvationTime

\* starved, one tick late
starvedLate(ticksSinceLastMeal, starvationTime) == ticksSinceLastMeal > starvationTime

\* ticksSinceLastMeal >= starvationTime, tested on the incremented counter
starved(ticksSinceLastMeal, starvationTime) == ticksSinceLastMeal >= starvationTime

updateGrass(grass, g, config) ==
    LET aged == [grass EXCEPT !.age = @ + 1]
        dies == shouldDieOfOldAge(aged.age, config.grass.lifeExpectancy)
        dead == [alive |-> FALSE, spawn |-> NULL, ent |-> aged, cause |-> "age"]
        cells == getRandomEmptyInRadius(g, aged.x, aged.y, config.grass.spreadRadius)
        spawns == {IF c = NULL THEN NULL ELSE createGrass(c.x, c.y) : c \in cells}
        noSpread == IF FALSE \in spreadDraw(config.grass.spreadRate) THEN {NULL} ELSE {}
        spread == IF TRUE \in spreadDraw(config.grass.spreadRate) THEN spawns ELSE {}
    IN  (IF TRUE \in dies THEN {dead} ELSE {})
        \cup (IF FALSE \in dies
              THEN {[alive |-> TRUE, spawn |-> s, ent |-> aged, cause |-> "none"] :
                        s \in noSpread \cup spread}
              ELSE {})

\* eatAndBreed, but the meal leaves ticksSinceLastMeal as it is
eatAndBreedKeepsHunger(animal, target, g, breedThreshold) ==
    LET oldX == animal.x
        oldY == animal.y
        fed == [animal EXCEPT !.x = target.x, !.y = target.y, !.foodEaten = @ + 1]
        spawnPos == IF getType(g, oldX, oldY) = EMPTY
                    THEN {Pos(oldX, oldY)}
                    ELSE getRandomEmptyNeighbor(g, fed.x, fed.y)
    IN  IF fed.foodEaten >= breedThreshold
        THEN {[ent |-> [fed EXCEPT !.foodEaten = 0],
               spawn |-> IF p = NULL THEN NULL ELSE createOfType(animal.type, p.x, p.y)] :
                    p \in spawnPos}
        ELSE {[ent |-> fed, spawn |-> NULL]}

\* eatAndBreed, but foodEaten is reset only when a newborn is created
eatAndBreedResetsOnBirth(animal, target, g, breedThreshold) ==
    LET oldX == animal.x
        oldY == animal.y
        fed == [animal EXCEPT !.x = target.x, !.y = target.y,
                              !.foodEaten = @ + 1, !.ticksSinceLastMeal = 0]
        spawnPos == IF getType(g, oldX, oldY) = EMPTY
                    THEN {Pos(oldX, oldY)}
                    ELSE getRandomEmptyNeighbor(g, fed.x, fed.y)
    IN  IF fed.foodEaten >= breedThreshold
        THEN {[ent |-> IF p = NULL THEN fed ELSE [fed EXCEPT !.foodEaten = 0],
               spawn |-> IF p = NULL THEN NULL ELSE createOfType(animal.type, p.x, p.y)] :
                    p \in spawnPos}
        ELSE {[ent |-> fed, spawn |-> NULL]}

\* The animal (already aged) moves onto target and eats what is there; when
\* foodEaten reaches breedThreshold it is reset and a newborn is placed on the
\* old cell if the grid shows it EMPTY, else on a random empty neighbour of the
\* new position.  g is the grid as it is during the update: the parent is
\* still stored on its old cell.  Results: [ent, spawn].
eatAndBreed(animal, target, g, breedThreshold) ==
    LET oldX == animal.x
        oldY == animal.y
        fed == [animal EXCEPT !.x = target.x, !.y = target.y,
                              !.foodEaten = @ + 1, !.ticksSinceLastMeal = 0]
        spawnPos == IF getType(g, oldX, oldY) = EMPTY
                    THEN {Pos(oldX, oldY)}
                    ELSE getRandomEmptyNeighbor(g, fed.x, fed.y)
    IN  IF fed.foodEaten >= breedThreshold
        THEN {[ent |-> [fed EXCEPT !.foodEaten = 0],
               spawn |-> IF p = NULL THEN NULL ELSE createOfType(animal.type, p.x, p.y)] :
                    p \in spawnPos}
        ELSE {[ent |-> fed, spawn |-> NULL]}

\* the move is not made
moveToNowhere(animal, target) == animal

moveTo(animal, target) == [animal EXCEPT !.x = target.x, !.y = target.y]

updateSheep(sheep, g, config) ==
    LET aged == [sheep EXCEPT !.age = @ + 1, !.ticksSinceLastMeal = @ + 1]
        dies == shouldDieOfOldAge(aged.age, config.sheep.lifeExpectancy)
        Dead(why) == [alive |-> FALSE, spawn |-> NULL, ateGrassAt |-> NULL,
                      ent |-> aged, cause |-> why]
        Moved(e) == [alive |-> TRUE, spawn |-> NULL, ateGrassAt |-> NULL,
                     ent |-> e, cause |-> "none"]
        Ate(target) ==
            {[alive |-> TRUE, spawn |-> r.spawn, ateGrassAt |-> Pos(target.x, target.y),
              ent |-> r.ent, cause |-> "none"] :
                r \in eatAndBreed(aged, target, g, config.sheep.breedThreshold)}
        neighbors == getNeighborPositions(aged.x, aged.y)
        IsGrass(p) == getType(g, p.x, p.y) = GRASS
        IsEmpty(p) == getType(g, p.x, p.y) = EMPTY
        grassNeighbors == SelectSeq(neighbors, IsGrass)
        emptyNeighbors == SelectSeq(neighbors, IsEmpty)
        closestGrass == findClosestInRadius(g, aged.x, aged.y,
                                            config.sheep.grazingRadius, GRASS)
        newX == aged.x + Sign(closestGrass.entity.x - aged.x)
        newY == aged.y + Sign(closestGrass.entity.y - aged.y)
        act ==
            IF Len(grassNeighbors) > 0
            THEN UNION {Ate(t) : t \in Range(grassNeighbors)}
            ELSE IF closestGrass # NULL
                 THEN IF isValidPosition(newX, newY)
                      THEN IF getType(g, newX, newY) = GRASS THEN Ate(Pos(newX, newY))
                           ELSE IF getType(g, newX, newY) = EMPTY
                                THEN {Moved(moveTo(aged, Pos(newX, newY)))}
                                ELSE {Moved(aged)}
                      ELSE {Moved(aged)}
                 ELSE IF Len(emptyNeighbors) > 0
                      THEN {Moved(moveTo(aged, t)) : t \in Range(emptyNeighbors)}
                      ELSE {Moved(aged)}
    IN  (IF TRUE \in dies THEN {Dead("age")} ELSE {})
        \cup (IF FALSE \in dies
              THEN IF starved(aged.ticksSinceLastMeal, config.sheep.starvationTime)
                   THEN {Dead("starvation")}
                   ELSE act
              ELSE {})

updateWolf(wolf, g, config) ==
    LET aged == [wolf EXCEPT !.age = @ + 1, !.ticksSinceLastMeal = @ + 1]
        dies == shouldDieOfOldAge(aged.age, config.wolf.lifeExpectancy)
        Dead(why) == [alive |-> FALSE, spawn |-> NULL, ateSheepAt |-> NULL,
                      ent |-> aged, cause |-> why]
        Moved(e) == [alive |-> TRUE, spawn |-> NULL, ateSheepAt |-> NULL,
                     ent |-> e, cause |-> "none"]
        Ate(target) ==
            {[alive |-> TRUE, spawn |-> r.spawn, ateSheepAt |-> Pos(target.x, target.y),
              ent |-> r.ent, cause |-> "none"] :
                r \in eatAndBreed(aged, target, g, config.wolf.breedThreshold)}
        closestSheep == findClosestInRadius(g, aged.x, aged.y,
                                            config.wolf.huntingRadius, SHEEP)
        newX == aged.x + Sign(closestSheep.entity.x - aged.x)
        newY == aged.y + Sign(closestSheep.entity.y - aged.y)
        neighbors == getNeighborPositions(aged.x, aged.y)
        IsValidMove(p) == getType(g, p.x, p.y) \in {EMPTY, GRASS, SHEEP}
        validMoves == SelectSeq(neighbors, IsValidMove)
        act ==
            IF closestSheep # NULL
            THEN IF isValidPosition(newX, newY)
                 THEN IF getType(g, newX, newY) = SHEEP THEN Ate(Pos(newX, newY))
                      ELSE IF getType(g, newX, newY) \in {EMPTY, GRASS}
                           THEN {Moved(moveTo(aged, Pos(newX, newY)))}
                           ELSE {Moved(aged)}
                 ELSE {Moved(aged)}
            ELSE IF Len(validMoves) > 0
                 THEN UNION {IF getType(g, t.x, t.y) = SHEEP
                             THEN Ate(t)
                             ELSE {Moved(moveTo(aged, t))} : t \in Range(validMoves)}
                 ELSE {Moved(aged)}
    IN  (IF TRUE \in dies THEN {Dead("age")} ELSE {})
        \cup (IF FALSE \in dies
              THEN IF starved(aged.ticksSinceLastMeal, config.wolf.starvationTime)
                   THEN {Dead("starvation")}
                   ELSE act
              ELSE {})

\* ------------------------------------------------------------------ seeding
\* seedPopulation runs three loops (grass, sheep, wolves), each pass drawing one
\* position.  [kind, i] is the loop and the pass that comes next.
SeedDone == [kind |-> EMPTY, i |-> 0]

initialCountOf(config, kind) ==
    IF kind = GRASS THEN config.grass.initialCount
    ELSE IF kind = SHEEP THEN config.sheep.initialCount
    ELSE config.wolf.initialCount

RECURSIVE seedLoop(_, _, _)
seedLoop(config, kind, i) ==
    IF kind > WOLF THEN SeedDone
    ELSE IF i < initialCountOf(config, kind) THEN [kind |-> kind, i |-> i]
    ELSE seedLoop(config, kind + 1, 0)

\* one pass with the draw pos (nothing is placed when it is null)
\* seedPlace, but the entity is created with its coordinates swapped
seedPlaceSwapped(g, kind, pos) ==
    IF pos = NULL THEN g ELSE set(g, pos.x, pos.y, createOfType(kind, pos.y, pos.x))

seedPlace(g, kind, pos) ==
    IF pos = NULL THEN g ELSE set(g, pos.x, pos.y, createOfType(kind, pos.x, pos.y))

\* one pass: every grid the getRandomEmptyPosition draw can lead to
seedPass(g, kind) == {seedPlace(g, kind, pos) : pos \in getRandomEmptyPosition(g)}

\* the draws of getRandomEmptyPosition that are null or one of the first
\* maxChoices empty cells in index order
seedDraws(g, maxChoices) ==
    LET draws == getRandomEmptyPosition(g)
        Before(pos) == {q \in draws \ {NULL} : toIndex(q.x, q.y) < toIndex(pos.x, pos.y)}
    IN  {pos \in draws : pos = NULL \/ Cardinality(Before(pos)) < maxChoices}

\* ------------------------------------------------------------------- engine
\* The inputs: the configurations handed to the constructor and to reset().
\* The detection radii cover the whole grid, as the default ones (5 and 4) cover
\* the neighbourhood an animal acts in.
BaseConfig ==
    [grass |-> [lifeExpectancy |-> 2, initialCount |-> 1, spreadRate |-> 50,
                spreadRadius |-> 1],
     sheep |-> [lifeExpectancy |-> 3, initialCount |-> 1, starvationTime |-> 2,
                breedThreshold |-> 1, grazingRadius |-> 4],
     wolf |-> [lifeExpectancy |-> 3, initialCount |-> 1, starvationTime |-> 2,
               breedThreshold |-> 2, huntingRadius |-> 4],
     gameSpeed |-> 10]

\* no wolves, short-lived grass that spreads by sampling a radius of 2
NoWolfConfig ==
    [grass |-> [lifeExpectancy |-> 1, initialCount |-> 1, spreadRate |-> 50,
                spreadRadius |-> 2],
     sheep |-> [lifeExpectancy |-> 3, initialCount |-> 1, starvationTime |-> 2,
                breedThreshold |-> 2, grazingRadius |-> 1],
     wolf |-> [lifeExpectancy |-> 3, initialCount |-> 0, starvationTime |-> 2,
               breedThreshold |-> 1, huntingRadius |-> 1],
     gameSpeed |-> 10]

\* more entities than cells
OverflowConfig ==
    [grass |-> [lifeExpectancy |-> 2, initialCount |-> 4, spreadRate |-> 50,
                spreadRadius |-> 1],
     sheep |-> [lifeExpectancy |-> 3, initialCount |-> 3, starvationTime |-> 2,
                breedThreshold |-> 1, grazingRadius |-> 4],
     wolf |-> [lifeExpectancy |-> 3, initialCount |-> 3, starvationTime |-> 2,
               breedThreshold |-> 2, huntingRadius |-> 4],
     gameSpeed |-> 10]

\* a crowded grid: two of each kind, grass that does not spread, entities that
\* may die of old age at their first update and do at their second, animals
\* that breed at their first meal, and detection radii of 1
CrowdConfig ==
    [grass |-> [lifeExpectancy |-> 1, initialCount |-> 2, spreadRate |-> 0,
                spreadRadius |-> 1],
     sheep |-> [lifeExpectancy |-> 1, initialCount |-> 2, starvationTime |-> 2,
                breedThreshold |-> 1, grazingRadius |-> 1],
     wolf |-> [lifeExpectancy |-> 1, initialCount |-> 2, starvationTime |-> 2,
               breedThreshold |-> 1, huntingRadius |-> 1],
     gameSpeed |-> 10]

\* one kind is absent from the start
AbsentConfigs ==
    {[BaseConfig EXCEPT !.grass.initialCount = 0],
     [BaseConfig EXCEPT !.sheep.initialCount = 0],
     [BaseConfig EXCEPT !.wolf.initialCount = 0]}

\* the configuration of the updates called on a bare grid: a hunting radius of
\* 1 leaves the diagonal neighbours to the random move, and 0.8 times the life
\* expectancy of grass is a whole number
UnitConfig ==
    [grass |-> [lifeExpectancy |-> 5, initialCount |-> 0, spreadRate |-> 50,
                spreadRadius |-> 1],
     sheep |-> [lifeExpectancy |-> 2, initialCount |-> 0, starvationTime |-> 2,
                breedThreshold |-> 2, grazingRadius |-> 2],
     wolf |-> [lifeExpectancy |-> 2, initialCount |-> 0, starvationTime |-> 2,
               breedThreshold |-> 2, huntingRadius |-> 1],
     gameSpeed |-> 10]

Configs == {BaseConfig, NoWolfConfig}

\* ------------------------------------------------- configuration validation
\* src/src/config/defaults.ts and src/src/config/validation.ts
DEFAULT_CONFIG ==
    [grass |-> [lifeExpectancy |-> 40, initialCount |-> 2000, spreadRate |-> 20,
                spreadRadius |-> 2],
     sheep |-> [lifeExpectancy |-> 200, initialCount |-> 400, starvationTime |-> 10,
                breedThreshold |-> 8, grazingRadius |-> 5],
     wolf |-> [lifeExpectancy |-> 250, initialCount |-> 80, starvationTime |-> 50,
               breedThreshold |-> 6, huntingRadius |-> 4],
     gameSpeed |-> 10]

PREDATOR_PARADISE_PRESET ==
    [grass |-> [lifeExpectancy |-> 60, initialCount |-> 7000, spreadRate |-> 8,
                spreadRadius |-> 3],
     sheep |-> [lifeExpectancy |-> 100, initialCount |-> 600, starvationTime |-> 25,
                breedThreshold |-> 4, grazingRadius |-> 3],
     wolf |-> [lifeExpectancy |-> 180, initialCount |-> 80, starvationTime |-> 35,
               breedThreshold |-> 3, huntingRadius |-> 6],
     gameSpeed |-> 10]

PEACEFUL_MEADOW_PRESET ==
    [grass |-> [lifeExpectancy |-> 80, initialCount |-> 8000, spreadRate |-> 10,
                spreadRadius |-> 4],
     sheep |-> [lifeExpectancy |-> 150, initialCount |-> 800, starvationTime |-> 40,
                breedThreshold |-> 3, grazingRadius |-> 4],
     wolf |-> [lifeExpectancy |-> 200, initialCount |-> 10, starvationTime |-> 50,
               breedThreshold |-> 2, huntingRadius |-> 8],
     gameSpeed |-> 10]

SURVIVAL_MODE_PRESET ==
    [grass |-> [lifeExpectancy |-> 35, initialCount |-> 3000, spreadRate |-> 4,
                spreadRadius |-> 2],
     sheep |-> [lifeExpectancy |-> 70, initialCount |-> 250, starvationTime |-> 15,
                breedThreshold |-> 5, grazingRadius |-> 2],
     wolf |-> [lifeExpectancy |-> 100, initialCount |-> 40, starvationTime |-> 20,
               breedThreshold |-> 4, huntingRadius |-> 6],
     gameSpeed |-> 10]

\* BALANCED_PRESET.config is a copy of DEFAULT_CONFIG
PRESETS == {DEFAULT_CONFIG, PREDATOR_PARADISE_PRESET, PEACEFUL_MEADOW_PRESET,
            SURVIVAL_MODE_PRESET}

CONFIG_RANGES ==
    [grass |-> [lifeExpectancy |-> [min |-> 1, max |-> 500],
                initialCount |-> [min |-> 0, max |-> 50000],
                spreadRate |-> [min |-> 1, max |-> 100]],
     sheep |-> [lifeExpectancy |-> [min |-> 1, max |-> 500],
                initialCount |-> [min |-> 0, max |-> 5000],
                starvationTime |-> [min |-> 1, max |-> 100],
                breedThreshold |-> [min |-> 1, max |-> 20]],
     wolf |-> [lifeExpectancy |-> [min |-> 1, max |-> 500],
               initialCount |-> [min |-> 0, max |-> 1000],
               starvationTime |-> [min |-> 1, max |-> 100],
               breedThreshold |-> [min |-> 1, max |-> 10],
               huntingRadius |-> [min |-> 1, max |-> 20]],
     gameSpeed |-> [min |-> 1, max |-> 60]]

\* Math.max(min, Math.min(max, value))
clamp(value, min, max) ==
    LET least == IF max < value THEN max ELSE value
    IN  IF min > least THEN min ELSE least

clampTo(value, range) == clamp(value, range.min, range.max)

\* sanitizeConfig: a new object built from the fields the function names
sanitizeConfig(config) ==
    LET r == CONFIG_RANGES
    IN  [grass |-> [lifeExpectancy |->
                        clampTo(config.grass.lifeExpectancy, r.grass.lifeExpectancy),
                    initialCount |->
                        clampTo(config.grass.initialCount, r.grass.initialCount),
                    spreadRate |->
                        clampTo(config.grass.spreadRate, r.grass.spreadRate)],
         sheep |-> [lifeExpectancy |->
                        clampTo(config.sheep.lifeExpectancy, r.sheep.lifeExpectancy),
                    initialCount |->
                        clampTo(config.sheep.initialCount, r.sheep.initialCount),
                    starvationTime |->
                        clampTo(config.sheep.starvationTime, r.sheep.starvationTime),
                    breedThreshold |->
                        clampTo(config.sheep.breedThreshold, r.sheep.breedThreshold)],
         wolf |-> [lifeExpectancy |->
                        clampTo(config.wolf.lifeExpectancy, r.wolf.lifeExpectancy),
                   initialCount |->
                        clampTo(config.wolf.initialCount, r.wolf.initialCount),
                   starvationTime |->
                        clampTo(config.wolf.starvationTime, r.wolf.starvationTime),
                   breedThreshold |->
                        clampTo(config.wolf.breedThreshold, r.wolf.breedThreshold),
                   huntingRadius |->
                        clampTo(config.wolf.huntingRadius, r.wolf.huntingRadius)],
         gameSpeed |-> clampTo(config.gameSpeed, r.gameSpeed)]

\* the configuration the settings form builds: the fields of its inputs only
formConfig(config) ==
    [grass |-> [lifeExpectancy |-> config.grass.lifeExpectancy,
                initialCount |-> config.grass.initialCount,
                spreadRate |-> config.grass.spreadRate],
     sheep |-> [lifeExpectancy |-> config.sheep.lifeExpectancy,
                initialCount |-> config.sheep.initialCount,
                starvationTime |-> config.sheep.starvationTime,
                breedThreshold |-> config.sheep.breedThreshold],
     wolf |-> config.wolf,
     gameSpeed |-> config.gameSpeed]

\* the fields CONFIG_RANGES gives a range
RangedFields ==
    {<< k, f >> : k \in {"grass"}, f \in DOMAIN CONFIG_RANGES.grass}
        \cup {<< k, f >> : k \in {"sheep"}, f \in DOMAIN CONFIG_RANGES.sheep}
        \cup {<< k, f >> : k \in {"wolf"}, f \in DOMAIN CONFIG_RANGES.wolf}

\* the values a field of an input configuration is given: below, on and
\* above the ends of the ranges
ProbeValues == {0 - 1, 0, 1, 10, 60, 61, 100000}

withField(config, path, value) == [config EXCEPT ![path[1]][path[2]] = value]

\* a preset, as it is or as the form holds it, with one field or the game
\* speed replaced
ConfigInputs ==
    LET bases == PRESETS \cup {formConfig(c) : c \in PRESETS}
    IN  bases
        \cup {withField(c, path, v) : c \in bases, path \in RangedFields, v \in ProbeValues}
        \cup {[c EXCEPT !.gameSpeed = v] : c \in bases, v \in ProbeValues}

\* validateRange returns no error for the value
inRange(value, range) == value >= range.min /\ value <= range.max

\* validateConfig(config).valid
validConfig(config) ==
    /\ \A path \in RangedFields :
            inRange(config[path[1]][path[2]], CONFIG_RANGES[path[1]][path[2]])
    /\ inRange(config.gameSpeed, CONFIG_RANGES.gameSpeed)
ControlConfigs == {BaseConfig, NoWolfConfig}
GameSpeeds == {30}

\* SimulationEngine's fields after new SimulationEngine(config)
newEngine(cfg) ==
    [grid |-> NewGrid,
     config |-> cfg,
     state |-> [tick |-> 0, isRunning |-> FALSE,
                population |-> [grass |-> 0, sheep |-> 0, wolves |-> 0],
                history |-> << >>],
     isGameOver |-> FALSE,
     extinctPopulation |-> "null"]

updatePopulationCounts(e) == [e EXCEPT !.state.population = getCounts(e.grid)]

\* recordHistory, but at the cap the new entry is the one dropped
recordHistoryDropsNewest(e) ==
    LET dataPoint == [tick |-> e.state.tick, grass |-> e.state.population.grass,
                      sheep |-> e.state.population.sheep,
                      wolves |-> e.state.population.wolves]
        pushed == Append(e.state.history, dataPoint)
    IN  [e EXCEPT !.state.history =
            IF Len(pushed) > MAX_HISTORY_LENGTH THEN e.state.history ELSE pushed]

recordHistory(e) ==
    LET dataPoint == [tick |-> e.state.tick, grass |-> e.state.population.grass,
                      sheep |-> e.state.population.sheep,
                      wolves |-> e.state.population.wolves]
        pushed == Append(e.state.history, dataPoint)
    IN  [e EXCEPT !.state.history =
            IF Len(pushed) > MAX_HISTORY_LENGTH THEN Tail(pushed) ELSE pushed]

\* checkExtinction, but the running flag is left alone
checkExtinctionKeepsRunning(e) ==
    IF e.state.population.grass = 0
    THEN [e EXCEPT !.isGameOver = TRUE, !.extinctPopulation = "grass"]
    ELSE IF e.state.population.sheep = 0
    THEN [e EXCEPT !.isGameOver = TRUE, !.extinctPopulation = "sheep"]
    ELSE IF e.state.population.wolves = 0
    THEN [e EXCEPT !.isGameOver = TRUE, !.extinctPopulation = "wolves"]
    ELSE e

\* checkExtinction, but the game ends only when nothing is left
checkExtinctionWhenAllGone(e) ==
    IF e.state.population.grass = 0 /\ e.state.population.sheep = 0
        /\ e.state.population.wolves = 0
    THEN [e EXCEPT !.isGameOver = TRUE, !.extinctPopulation = "grass",
                   !.state.isRunning = FALSE]
    ELSE e

checkExtinction(e) ==
    IF e.state.population.grass = 0
    THEN [e EXCEPT !.isGameOver = TRUE, !.extinctPopulation = "grass",
                   !.state.isRunning = FALSE]
    ELSE IF e.state.population.sheep = 0
    THEN [e EXCEPT !.isGameOver = TRUE, !.extinctPopulation = "sheep",
                   !.state.isRunning = FALSE]
    ELSE IF e.state.population.wolves = 0
    THEN [e EXCEPT !.isGameOver = TRUE, !.extinctPopulation = "wolves",
                   !.state.isRunning = FALSE]
    ELSE e

\* initialize() runs to completion before any other call, so the states inside
\* it are internal.  It is modelled in steps: initializeBegin (the flags,
\* grid.reset() of seedPopulation, and the fields initialize() overwrites after
\* the seeding: tick, history, and population, which updatePopulationCounts()
\* sets again at the end), one step per seeding pass, and initializeEnd.
initializeBegin(e) ==
    [e EXCEPT !.isGameOver = FALSE, !.extinctPopulation = "null",
              !.grid = gridReset(@),
              !.state.tick = 0, !.state.history = << >>,
              !.state.population = getCounts(gridReset(e.grid))]

initializeEnd(e) == recordHistory(updatePopulationCounts(e))

\* reset, but the running flag is left alone
resetKeepsRunning(e, cfg) == [e EXCEPT !.config = IF cfg # NULL THEN cfg ELSE @]

\* reset(config?) up to its call of initialize(); cfg = NULL stands for the call
\* without an argument
reset(e, cfg) ==
    [e EXCEPT !.config = IF cfg # NULL THEN cfg ELSE @, !.state.isRunning = FALSE]

setGameSpeed(e, speed) == [e EXCEPT !.config.gameSpeed = speed]
start(e) == [e EXCEPT !.state.isRunning = TRUE]
pause(e) == [e EXCEPT !.state.isRunning = FALSE]
\* togglePause, but it always starts
togglePauseStarts(e) == [e EXCEPT !.state.isRunning = TRUE]
togglePause(e) == [e EXCEPT !.state.isRunning = ~@]
isRunning(e) == e.state.isRunning
hasEnded(e) == e.isGameOver
getExtinctPopulation(e) == e.extinctPopulation
getPopulationCounts(e) == e.state.population
getTick(e) == e.state.tick
getHistory(e) == e.state.history

\* tick(): the write-back of one grass update
writeGrass(g, result) ==
    IF ~result.alive THEN clear(g, result.ent.x, result.ent.y)
    ELSE set(g, result.ent.x, result.ent.y, result.ent)

\* tick(): whether the surviving sheep is written (its cell holds no Wolf once
\* the old cell is cleared)
sheepWritten(g, oldX, oldY, result) ==
    LET sheep == result.ent
        cleared == IF ~result.alive \/ sheep.x # oldX \/ sheep.y # oldY
                   THEN clear(g, oldX, oldY) ELSE g
    IN  result.alive /\ getType(cleared, sheep.x, sheep.y) # WOLF

\* writeSheep, but the survivor is not written on a cell that holds Grass
writeSheepUnlessGrass(g, oldX, oldY, result) ==
    LET sheep == result.ent
        cleared == IF ~result.alive \/ sheep.x # oldX \/ sheep.y # oldY
                   THEN clear(g, oldX, oldY) ELSE g
    IN  IF result.alive /\ getType(cleared, sheep.x, sheep.y) \notin {WOLF, GRASS}
        THEN set(cleared, sheep.x, sheep.y, sheep)
        ELSE cleared

\* writeSheep, but a dead sheep leaves grass on its cell
writeSheepLeavesGrass(g, oldX, oldY, result) ==
    LET sheep == result.ent
        cleared == IF ~result.alive \/ sheep.x # oldX \/ sheep.y # oldY
                   THEN clear(g, oldX, oldY) ELSE g
    IN  IF sheepWritten(g, oldX, oldY, result)
        THEN set(cleared, sheep.x, sheep.y, sheep)
        ELSE set(cleared, oldX, oldY, createGrass(oldX, oldY))

\* writeSheep, but the grid is left as it was
writeSheepNowhere(g, oldX, oldY, result) == g

\* tick(): the write-back of one sheep update
writeSheep(g, oldX, oldY, result) ==
    LET sheep == result.ent
        cleared == IF ~result.alive \/ sheep.x # oldX \/ sheep.y # oldY
                   THEN clear(g, oldX, oldY) ELSE g
    IN  IF sheepWritten(g, oldX, oldY, result)
        THEN set(cleared, sheep.x, sheep.y, sheep)
        ELSE cleared

\* writeWolf, but the grass the wolf walked onto is queued behind it: the cell a
\* wolf leaves gets grass back
writeWolfRegrows(g, oldX, oldY, result) ==
    LET wolf == result.ent
        regrown == IF result.alive /\ (wolf.x # oldX \/ wolf.y # oldY)
                   THEN set(g, oldX, oldY, createGrass(oldX, oldY))
                   ELSE IF ~result.alive THEN clear(g, oldX, oldY) ELSE g
    IN  IF result.alive THEN set(regrown, wolf.x, wolf.y, wolf) ELSE regrown

\* writeWolf, but the surviving wolf is not written on a cell that holds a Sheep
writeWolfUnlessSheep(g, oldX, oldY, result) ==
    LET wolf == result.ent
        cleared == IF ~result.alive \/ wolf.x # oldX \/ wolf.y # oldY
                   THEN clear(g, oldX, oldY) ELSE g
    IN  IF result.alive /\ getType(cleared, wolf.x, wolf.y) # SHEEP
        THEN set(cleared, wolf.x, wolf.y, wolf) ELSE cleared

\* tick(): the write-back of one wolf update
writeWolf(g, oldX, oldY, result) ==
    LET wolf == result.ent
        cleared == IF ~result.alive \/ wolf.x # oldX \/ wolf.y # oldY
                   THEN clear(g, oldX, oldY) ELSE g
    IN  IF result.alive THEN set(cleared, wolf.x, wolf.y, wolf) ELSE cleared

\* commitOne, but the newborn is written whatever its cell holds
commitOneOverwrites(g, newborn) == set(g, newborn.x, newborn.y, newborn)

\* tick(): one pass of an "Add newly spawned / born ..." loop
commitOne(g, newborn) ==
    IF getType(g, newborn.x, newborn.y) = EMPTY
    THEN set(g, newborn.x, newborn.y, newborn)
    ELSE g

\* tick(): "Add newly spawned / born ..." loops
RECURSIVE commitNewborns(_, _)
commitNewborns(g, newborns) ==
    IF newborns = << >> THEN g
    ELSE commitNewborns(commitOne(g, Head(newborns)), Tail(newborns))

\* tick(): what follows the wolf phase
finishTick(e) ==
    LET counted == checkExtinction(updatePopulationCounts(e))
    IN  IF counted.state.tick % HISTORY_INTERVAL = 0 THEN recordHistory(counted)
        ELSE counted

VARIABLES
    engine,                   \* the SimulationEngine object
    pc,                       \* where the running call stands: idle, seed, grass, sheep, wolves
    seed,                     \* seedPopulation(): the loop and pass that comes next
    allGrass, allSheep, allWolves,   \* tick(): what is left of the snapshots
    newGrass, newSheep, newWolves,   \* tick(): the queued newborns
    processedSheepPositions,  \* tick(): the keys of the written sheep
    \* observations of the running call, cleared when it ends
    tickStart,                \* the grid when tick() was called
    gridBefore,               \* the grid just before the latest entity update or grid call
    log,                      \* tick(): the entity updates so far, [kind, before, result];
                              \* initialize(): the call it runs for; a bare grid: the latest call
    \* the configuration objects, tracked where two engines are constructed
    objects,                  \* the objects allocated so far; a reference is an index
    thisConfig,               \* the reference engine.config holds
    other,                    \* an engine constructed earlier from the same object
    world                     \* the typed-array World object, and where update() stands

vars == << engine, pc, seed, allGrass, allSheep, allWolves, newGrass, newSheep, newWolves,
           processedSheepPositions, tickStart, gridBefore, log, objects, thisConfig, other,
           world >>
pairVars == << objects, thisConfig, other >>
tickLocals == << allGrass, allSheep, allWolves, newGrass, newSheep, newWolves,
                 processedSheepPositions, tickStart, gridBefore, log >>
seedLocals == << allGrass, allSheep, allWolves, newGrass, newSheep, newWolves,
                 processedSheepPositions, tickStart, gridBefore >>

\* the latest entity update of the running tick
NoUpdate == [kind |-> "none"]
last == IF log = << >> THEN NoUpdate ELSE log[Len(log)]

InitLocals ==
    /\ pc = "idle"
    /\ seed = SeedDone
    /\ allGrass = << >> /\ allSheep = << >> /\ allWolves = << >>
    /\ newGrass = << >> /\ newSheep = << >> /\ newWolves = << >>
    /\ processedSheepPositions = {}
    /\ tickStart = NULL /\ gridBefore = NULL /\ log = << >>

\* one engine, constructed with a configuration; its objects are not tracked
InitWith(configs) ==
    /\ engine \in {newEngine(c) : c \in configs}
    /\ InitLocals
    /\ objects = << >> /\ thisConfig = 0 /\ other = NULL
    /\ world = NULL

\* initialize(), up to the first seeding pass
Initialize ==
    /\ pc = "idle"
    /\ engine' = initializeBegin(engine)
    /\ seed' = seedLoop(engine.config, GRASS, 0)
    /\ pc' = "seed"
    /\ log' = << [kind |-> "initialize",
                   from |-> [isRunning |-> isRunning(engine),
                             hasEnded |-> hasEnded(engine)]] >>
    /\ UNCHANGED seedLocals
    /\ UNCHANGED << pairVars, world >>

\* reset(config?), up to the first seeding pass
ResetWith(configs) ==
    /\ pc = "idle"
    /\ \E cfg \in configs \cup {NULL} :
        /\ engine' = initializeBegin(reset(engine, cfg))
        /\ seed' = seedLoop(reset(engine, cfg).config, GRASS, 0)
        /\ log' = << [kind |-> "reset", before |-> cfg,
                       from |-> [isRunning |-> isRunning(engine),
                                 hasEnded |-> hasEnded(engine)]] >>
    /\ pc' = "seed"
    /\ UNCHANGED seedLocals
    /\ UNCHANGED << pairVars, world >>

\* one pass of a seeding loop
SeedStep ==
    /\ pc = "seed" /\ seed # SeedDone
    /\ \E g \in seedPass(engine.grid, seed.kind) : engine' = [engine EXCEPT !.grid = g]
    /\ seed' = seedLoop(engine.config, seed.kind, seed.i + 1)
    /\ UNCHANGED << pc, tickLocals >>
    /\ UNCHANGED << pairVars, world >>

\* initialize(), after seedPopulation
InitializeEnd ==
    /\ pc = "seed" /\ seed = SeedDone
    /\ engine' = initializeEnd(engine)
    /\ pc' = "idle"
    /\ log' = << >>
    /\ UNCHANGED << seedLocals, seed >>
    /\ UNCHANGED << pairVars, world >>

\* one pass of a seeding loop, the draw among the first SeedChoices empty cells
SeedStepBounded ==
    /\ pc = "seed" /\ seed # SeedDone
    /\ \E pos \in seedDraws(engine.grid, SeedChoices) :
          engine' = [engine EXCEPT !.grid = seedPlace(@, seed.kind, pos)]
    /\ seed' = seedLoop(engine.config, seed.kind, seed.i + 1)
    /\ UNCHANGED << pc, tickLocals >>
    /\ UNCHANGED << pairVars, world >>

Start ==
    /\ pc = "idle" /\ engine' = start(engine)
    /\ UNCHANGED << pc, seed, tickLocals, pairVars, world >>
Pause ==
    /\ pc = "idle" /\ engine' = pause(engine)
    /\ UNCHANGED << pc, seed, tickLocals, pairVars, world >>
TogglePause ==
    /\ pc = "idle" /\ engine' = togglePause(engine)
    /\ UNCHANGED << pc, seed, tickLocals, pairVars, world >>
SetGameSpeed ==
    /\ pc = "idle"
    /\ \E speed \in GameSpeeds : engine' = setGameSpeed(engine, speed)
    /\ UNCHANGED << pc, seed, tickLocals, pairVars, world >>

\* tick(), up to the snapshots
TickBeginUpTo(maxTick) ==
    /\ pc = "idle"
    /\ engine.state.tick < maxTick
    /\ engine' = [engine EXCEPT !.state.tick = @ + 1]
    /\ allGrass' = getEntitiesOfType(engine.grid, GRASS)
    /\ allSheep' = getEntitiesOfType(engine.grid, SHEEP)
    /\ allWolves' = getEntitiesOfType(engine.grid, WOLF)
    /\ newGrass' = << >>
    /\ pc' = "grass"
    /\ tickStart' = engine.grid
    /\ UNCHANGED << seed, newSheep, newWolves, processedSheepPositions, gridBefore, log >>
    /\ UNCHANGED << pairVars, world >>

\* one pass of the grass loop
GrassStep ==
    /\ pc = "grass" /\ allGrass # << >>
    /\ \E result \in updateGrass(Head(allGrass), engine.grid, engine.config) :
        /\ engine' = [engine EXCEPT !.grid = writeGrass(@, result)]
        /\ newGrass' = IF result.alive /\ result.spawn # NULL
                       THEN Append(newGrass, result.spawn) ELSE newGrass
        /\ log' = Append(log, [kind |-> "grass", before |-> Head(allGrass),
                               result |-> result])
    /\ allGrass' = Tail(allGrass)
    /\ gridBefore' = engine.grid
    /\ UNCHANGED << pc, seed, allSheep, allWolves, newSheep, newWolves,
                    processedSheepPositions, tickStart >>
    /\ UNCHANGED << pairVars, world >>

\* "Add newly spawned grass"
GrassCommit ==
    /\ pc = "grass" /\ allGrass = << >>
    /\ engine' = [engine EXCEPT !.grid = commitNewborns(@, newGrass)]
    /\ newGrass' = << >>
    /\ newSheep' = << >>
    /\ processedSheepPositions' = {}
    /\ pc' = "sheep"
    /\ UNCHANGED << seed, allGrass, allSheep, allWolves, newWolves, tickStart,
                    gridBefore, log >>
    /\ UNCHANGED << pairVars, world >>

\* one pass of the sheep loop
SheepStep ==
    /\ pc = "sheep" /\ allSheep # << >>
    /\ LET sheep == Head(allSheep)
       IN  IF toKey(sheep.x, sheep.y) \in processedSheepPositions
           THEN /\ log' = Append(log, [kind |-> "skipped", before |-> sheep])
                /\ UNCHANGED << engine, newSheep, processedSheepPositions >>
           ELSE \E result \in updateSheep(sheep, engine.grid, engine.config) :
                  /\ engine' = [engine EXCEPT
                                    !.grid = writeSheep(@, sheep.x, sheep.y, result)]
                  /\ processedSheepPositions' =
                        IF sheepWritten(engine.grid, sheep.x, sheep.y, result)
                        THEN processedSheepPositions
                                \cup {toKey(result.ent.x, result.ent.y)}
                        ELSE processedSheepPositions
                  /\ newSheep' = IF result.alive /\ result.spawn # NULL
                                 THEN Append(newSheep, result.spawn) ELSE newSheep
                  /\ log' = Append(log, [kind |-> "sheep", before |-> sheep,
                                         result |-> result])
    /\ allSheep' = Tail(allSheep)
    /\ gridBefore' = engine.grid
    /\ UNCHANGED << pc, seed, allGrass, allWolves, newGrass, newWolves, tickStart >>
    /\ UNCHANGED << pairVars, world >>

\* "Add newly born sheep"
SheepCommit ==
    /\ pc = "sheep" /\ allSheep = << >>
    /\ engine' = [engine EXCEPT !.grid = commitNewborns(@, newSheep)]
    /\ newSheep' = << >>
    /\ newWolves' = << >>
    /\ processedSheepPositions' = {}
    /\ pc' = "wolves"
    /\ UNCHANGED << seed, allGrass, allSheep, allWolves, newGrass, tickStart,
                    gridBefore, log >>
    /\ UNCHANGED << pairVars, world >>

\* one pass of the wolf loop
WolfStep ==
    /\ pc = "wolves" /\ allWolves # << >>
    /\ LET wolf == Head(allWolves)
       IN  \E result \in updateWolf(wolf, engine.grid, engine.config) :
              /\ engine' = [engine EXCEPT !.grid = writeWolf(@, wolf.x, wolf.y, result)]
              /\ newWolves' = IF result.alive /\ result.spawn # NULL
                              THEN Append(newWolves, result.spawn) ELSE newWolves
              /\ log' = Append(log, [kind |-> "wolf", before |-> wolf,
                                     result |-> result])
    /\ allWolves' = Tail(allWolves)
    /\ gridBefore' = engine.grid
    /\ UNCHANGED << pc, seed, allGrass, allSheep, newGrass, newSheep,
                    processedSheepPositions, tickStart >>
    /\ UNCHANGED << pairVars, world >>

\* "Add newly born wolves", the counts, the extinction check and the history
TickEnd ==
    /\ pc = "wolves" /\ allWolves = << >>
    /\ engine' = finishTick([engine EXCEPT !.grid = commitNewborns(@, newWolves)])
    /\ newWolves' = << >>
    /\ pc' = "idle"
    /\ tickStart' = NULL /\ gridBefore' = NULL /\ log' = << >>
    /\ UNCHANGED << seed, allGrass, allSheep, allWolves, newGrass, newSheep,
                    processedSheepPositions >>
    /\ UNCHANGED << pairVars, world >>

\* tick() after its first statements
TickRest ==
    \/ GrassStep
    \/ GrassCommit
    \/ SheepStep
    \/ SheepCommit
    \/ WolfStep
    \/ TickEnd

\* The simulation: construction, initialize(), reset(config?) and tick().
Init == InitWith(Configs)
Reset == ResetWith(Configs)
TickBegin == TickBeginUpTo(MaxTick)
Next ==
    \/ Initialize
    \/ Reset
    \/ SeedStep
    \/ InitializeEnd
    \/ TickBegin
    \/ TickRest

Spec == Init /\ [][Next]_vars

\* The simulation with the running flag and the game speed driven as well.
InitControl == InitWith(ControlConfigs)
ResetControl == ResetWith(ControlConfigs)
TickBeginControl == TickBeginUpTo(MaxTickControl)
NextControl ==
    \/ Initialize
    \/ ResetControl
    \/ SeedStep
    \/ InitializeEnd
    \/ Start
    \/ Pause
    \/ TogglePause
    \/ SetGameSpeed
    \/ TickBeginControl
    \/ TickRest

SpecControl == InitControl /\ [][NextControl]_vars

\* The simulation on a crowded grid.
InitCrowd == InitWith({CrowdConfig})
TickBeginCrowd == TickBeginUpTo(MaxTickCrowd)
NextCrowd ==
    \/ Initialize
    \/ SeedStepBounded
    \/ InitializeEnd
    \/ TickBeginCrowd
    \/ TickRest

SpecCrowd == InitCrowd /\ [][NextCrowd]_vars

\* The simulation with a kind that is absent from the start.
InitAbsent == InitWith(AbsentConfigs)
ResetAbsent == ResetWith(AbsentConfigs)
TickBeginAbsent == TickBeginUpTo(MaxTickAbsent)
NextAbsent ==
    \/ Initialize
    \/ ResetAbsent
    \/ SeedStep
    \/ InitializeEnd
    \/ TickBeginAbsent
    \/ TickRest

SpecAbsent == InitAbsent /\ [][NextAbsent]_vars

\* Seeding beyond the capacity of the grid.
InitSeed == InitWith({OverflowConfig})
NextSeed ==
    \/ Initialize
    \/ SeedStepBounded
    \/ InitializeEnd

SpecSeed == InitSeed /\ [][NextSeed]_vars

\* ------------------------------------------------------------- a bare grid
\* The grid and the entity updates called directly, as the repository's grid
\* and entity tests call them: new entities are placed on a new grid, then the
\* call under test is made and observed in log.  engine.grid is the grid and
\* engine.config the configuration handed to the update.
Coords == ((0 - 1)..GRID_WIDTH) \X ((0 - 1)..GRID_HEIGHT)
UpdateKinds == {"grass", "sheep", "wolf"}
observed == log # << >>

\* grid.set(x, y, createGrass / createSheep / createWolf (x, y)) on an empty cell
Place ==
    /\ pc = "idle" /\ ~observed
    /\ Len(getAllEntities(engine.grid)) < MaxPlaced
    /\ \E p \in AllCells, t \in {GRASS, SHEEP, WOLF} :
        /\ getType(engine.grid, p.x, p.y) = EMPTY
        /\ engine' = [engine EXCEPT !.grid = set(@, p.x, p.y, createOfType(t, p.x, p.y))]
    /\ UNCHANGED << pc, seed, tickLocals >>
    /\ UNCHANGED << pairVars, world >>

\* the entity with the attributes it is given before the update
withAttributes(entity, age, foodEaten, ticksSinceLastMeal) ==
    IF entity.type = GRASS THEN [entity EXCEPT !.age = age]
    ELSE [entity EXCEPT !.age = age, !.foodEaten = foodEaten,
                        !.ticksSinceLastMeal = ticksSinceLastMeal]

kindOf(entity) ==
    IF entity.type = GRASS THEN "grass" ELSE IF entity.type = SHEEP THEN "sheep" ELSE "wolf"

updateOf(entity, g, config) ==
    IF entity.type = GRASS THEN updateGrass(entity, g, config)
    ELSE IF entity.type = SHEEP THEN updateSheep(entity, g, config)
    ELSE updateWolf(entity, g, config)

\* grid.set(x, y, entity) with a new entity or null, on any coordinates
GridSet ==
    /\ pc = "idle" /\ ~observed
    /\ \E c \in Coords, t \in {EMPTY, GRASS, SHEEP, WOLF} :
        LET x == c[1]
            y == c[2]
            entity == IF t = EMPTY THEN NULL ELSE createOfType(t, x, y)
        IN  /\ engine' = [engine EXCEPT !.grid = set(@, x, y, entity)]
            /\ log' = << [kind |-> "set", before |-> Pos(x, y), entity |-> entity] >>
    /\ gridBefore' = engine.grid
    /\ UNCHANGED << pc, seed, allGrass, allSheep, allWolves, newGrass, newSheep,
                    newWolves, processedSheepPositions, tickStart >>
    /\ UNCHANGED << pairVars, world >>

\* grid.clear(x, y)
GridClear ==
    /\ pc = "idle" /\ ~observed
    /\ \E c \in Coords :
        /\ engine' = [engine EXCEPT !.grid = clear(@, c[1], c[2])]
        /\ log' = << [kind |-> "clear", before |-> Pos(c[1], c[2])] >>
    /\ gridBefore' = engine.grid
    /\ UNCHANGED << pc, seed, allGrass, allSheep, allWolves, newGrass, newSheep,
                    newWolves, processedSheepPositions, tickStart >>
    /\ UNCHANGED << pairVars, world >>

\* grid.isValidPosition(x, y), grid.getType(x, y) and grid.get(x, y)
GridRead ==
    /\ pc = "idle" /\ ~observed
    /\ \E c \in Coords :
        log' = << [kind |-> "read", before |-> Pos(c[1], c[2]),
                   result |-> [isValidPosition |-> isValidPosition(c[1], c[2]),
                               getType |-> getType(engine.grid, c[1], c[2]),
                               get |-> get(engine.grid, c[1], c[2])]] >>
    /\ gridBefore' = engine.grid
    /\ UNCHANGED << engine, pc, seed, allGrass, allSheep, allWolves, newGrass, newSheep,
                    newWolves, processedSheepPositions, tickStart >>
    /\ UNCHANGED << pairVars, world >>

\* grid.getNeighborPositions(x, y) and grid.getEmptyNeighbors(x, y)
GridNeighbors ==
    /\ pc = "idle" /\ ~observed
    /\ \E p \in AllCells :
        log' = << [kind |-> "neighbors", before |-> p,
                   result |-> [getNeighborPositions |-> getNeighborPositions(p.x, p.y),
                               getEmptyNeighbors |->
                                    getEmptyNeighbors(engine.grid, p.x, p.y)]] >>
    /\ gridBefore' = engine.grid
    /\ UNCHANGED << engine, pc, seed, allGrass, allSheep, allWolves, newGrass, newSheep,
                    newWolves, processedSheepPositions, tickStart >>
    /\ UNCHANGED << pairVars, world >>

\* grid.findClosestInRadius(x, y, radius, entityType), on any coordinates
GridFind ==
    /\ pc = "idle" /\ ~observed
    /\ \E c \in Coords, radius \in 0..MaxRadius, entityType \in {GRASS, SHEEP, WOLF} :
        log' = << [kind |-> "find", before |-> Pos(c[1], c[2]), radius |-> radius,
                   entityType |-> entityType,
                   result |-> findClosestInRadius(engine.grid, c[1], c[2], radius,
                                                  entityType)] >>
    /\ gridBefore' = engine.grid
    /\ UNCHANGED << engine, pc, seed, allGrass, allSheep, allWolves, newGrass, newSheep,
                    newWolves, processedSheepPositions, tickStart >>
    /\ UNCHANGED << pairVars, world >>

\* updateGrass / updateSheep / updateWolf on an entity of the grid that has been
\* given its attributes.  The update changes the entity object, which is the
\* record the grid holds under the key of its old cell.  The configuration
\* handed to the update is UnitConfig with a spreadRadius of 0..MaxRadius, and
\* is what engine.config holds afterwards.
UpdateEntity ==
    /\ pc = "idle" /\ ~observed
    /\ \E i \in 1..Len(getAllEntities(engine.grid)),
          age \in 0..MaxAge, foodEaten \in 0..MaxFood, ticksSinceLastMeal \in 0..MaxMeals,
          spreadRadius \in 0..MaxRadius :
        LET placed == getAllEntities(engine.grid)[i]
            entity == withAttributes(placed, age, foodEaten, ticksSinceLastMeal)
            g == set(engine.grid, entity.x, entity.y, entity)
            config == [engine.config EXCEPT !.grass.spreadRadius = spreadRadius]
        IN  \E result \in updateOf(entity, g, config) :
              /\ engine' = [engine EXCEPT !.config = config, !.grid =
                                [g EXCEPT !.entities =
                                    MapSet(@, toKey(entity.x, entity.y), result.ent)]]
              /\ gridBefore' = g
              /\ log' = << [kind |-> kindOf(entity), before |-> entity,
                            result |-> result] >>
    /\ UNCHANGED << pc, seed, allGrass, allSheep, allWolves, newGrass, newSheep,
                    newWolves, processedSheepPositions, tickStart >>
    /\ UNCHANGED << pairVars, world >>

InitUnit == InitWith({UnitConfig})
NextUnit ==
    \/ Place
    \/ GridSet
    \/ GridClear
    \/ GridRead
    \/ GridNeighbors
    \/ GridFind
    \/ UpdateEntity

SpecUnit == InitUnit /\ [][NextUnit]_vars

\* --------------------------------------------------- a wolf among others
\* updateWolf called on a grid that holds up to MaxPack entities: the wolf is
\* one of the wolves placed, at the age it was given, and the configuration
\* handed to the update is UnitConfig with a huntingRadius of 0..MaxRadius.
\* The entities are placed in the order of their cells (updateWolf reads the
\* grid by cell, never in the order of its records).
PlacePack ==
    /\ pc = "idle" /\ ~observed
    /\ Len(getAllEntities(engine.grid)) < MaxPack
    /\ \E p \in AllCells, t \in {GRASS, SHEEP, WOLF} :
        /\ \A q \in AllCells :
              toIndex(q.x, q.y) >= toIndex(p.x, p.y) => getType(engine.grid, q.x, q.y) = EMPTY
        /\ engine' = [engine EXCEPT !.grid = set(@, p.x, p.y, createOfType(t, p.x, p.y))]
    /\ UNCHANGED << pc, seed, tickLocals >>
    /\ UNCHANGED << pairVars, world >>

UpdateWolf ==
    /\ pc = "idle" /\ ~observed
    /\ \E i \in 1..Len(getAllEntities(engine.grid)), age \in 0..MaxPackAge,
          huntingRadius \in 0..MaxRadius :
        LET placed == getAllEntities(engine.grid)[i]
            wolf == withAttributes(placed, age, 0, 0)
            g == set(engine.grid, wolf.x, wolf.y, wolf)
            config == [engine.config EXCEPT !.wolf.huntingRadius = huntingRadius]
        IN  /\ placed.type = WOLF
            /\ \E result \in updateWolf(wolf, g, config) :
                  /\ engine' = [engine EXCEPT !.config = config, !.grid =
                                    [g EXCEPT !.entities =
                                        MapSet(@, toKey(wolf.x, wolf.y), result.ent)]]
                  /\ gridBefore' = g
                  /\ log' = << [kind |-> "wolf", before |-> wolf, result |-> result] >>
    /\ UNCHANGED << pc, seed, allGrass, allSheep, allWolves, newGrass, newSheep,
                    newWolves, processedSheepPositions, tickStart >>
    /\ UNCHANGED << pairVars, world >>

InitPack == InitWith({UnitConfig})
NextPack ==
    \/ PlacePack
    \/ UpdateWolf

SpecPack == InitPack /\ [][NextPack]_vars

\* ------------------------------------------------------------ two engines
\* Two SimulationEngine objects constructed from the same configuration
\* object.  A configuration object holds references to its grass, sheep and
\* wolf objects; `engine` is the engine the calls are made on, and its config
\* field holds the value of the object thisConfig refers to.

\* the objects of the caller: the three nested objects and the configuration
callerObjects(cfg) ==
    << cfg.grass, cfg.sheep, cfg.wolf,
       [grass |-> 1, sheep |-> 2, wolf |-> 3, gameSpeed |-> cfg.gameSpeed] >>
\* the reference of the caller's configuration object: the last of its objects
CallerConfig == Len(callerObjects(BaseConfig))

\* the configuration a reference gives when it is read
deref(objs, ref) ==
    [grass |-> objs[objs[ref].grass], sheep |-> objs[objs[ref].sheep],
     wolf |-> objs[objs[ref].wolf], gameSpeed |-> objs[ref].gameSpeed]

\* { ...config }, but the same object
spreadShares(objs, ref) == [objects |-> objs, ref |-> ref]

\* { ...config }: a new object with the fields of the old one
spread(objs, ref) == [objects |-> Append(objs, objs[ref]), ref |-> Len(objs) + 1]

\* new SimulationEngine(config)
construct(objs, ref) ==
    LET copy == spread(objs, ref)
    IN  [objects |-> copy.objects, config |-> copy.ref,
         engine |-> newEngine(deref(copy.objects, copy.ref))]

\* what the getters of an engine return: getGrid, getConfig, getTick,
\* getHistory, getState, isRunning, hasEnded, getExtinctPopulation
observe(e, objs, ref) ==
    [grid |-> e.grid, config |-> deref(objs, ref), tick |-> getTick(e),
     history |-> getHistory(e), population |-> getPopulationCounts(e),
     isRunning |-> isRunning(e), hasEnded |-> hasEnded(e),
     extinctPopulation |-> getExtinctPopulation(e)]

InitPair ==
    /\ LET made == construct(callerObjects(BaseConfig), CallerConfig)
       IN  /\ engine = made.engine
           /\ objects = made.objects
           /\ thisConfig = made.config
    /\ other = NULL
    /\ world = NULL
    /\ InitLocals

\* a second engine is constructed from the caller's object; the calls are made
\* on it from now on, and the first engine is kept with what it shows
ConstructSecond ==
    /\ pc = "idle" /\ other = NULL
    /\ LET made == construct(objects, CallerConfig)
       IN  /\ engine' = made.engine
           /\ objects' = made.objects
           /\ thisConfig' = made.config
    /\ other' = [engine |-> engine, config |-> thisConfig,
                 seen |-> observe(engine, objects, thisConfig)]
    /\ UNCHANGED << pc, seed, tickLocals, world >>

\* reset() and reset(config) with the caller's object, up to the first
\* seeding pass
ResetPair ==
    /\ pc = "idle"
    /\ \/ /\ engine' = initializeBegin(reset(engine, NULL))
          /\ seed' = seedLoop(engine.config, GRASS, 0)
          /\ UNCHANGED << objects, thisConfig >>
       \/ /\ Len(objects) < MaxObjects
          /\ LET copy == spread(objects, CallerConfig)
                 cfg == deref(copy.objects, copy.ref)
             IN  /\ engine' = initializeBegin(reset(engine, cfg))
                 /\ seed' = seedLoop(cfg, GRASS, 0)
                 /\ objects' = copy.objects
                 /\ thisConfig' = copy.ref
    /\ log' = << [kind |-> "reset"] >>
    /\ pc' = "seed"
    /\ UNCHANGED << seedLocals, other, world >>

\* one pass of a seeding loop, the draw among the first PairSeedChoices empty
\* cells (null when the draws are all null)
SeedStepPair ==
    /\ pc = "seed" /\ seed # SeedDone
    /\ LET draws == seedDraws(engine.grid, PairSeedChoices)
           placed == IF draws = {NULL} THEN draws ELSE draws \ {NULL}
       IN  \E pos \in placed :
              engine' = [engine EXCEPT !.grid = seedPlace(@, seed.kind, pos)]
    /\ seed' = seedLoop(engine.config, seed.kind, seed.i + 1)
    /\ UNCHANGED << pc, tickLocals, pairVars, world >>

\* setGameSpeed(speed): this.config.gameSpeed = speed
SetGameSpeedPair ==
    /\ pc = "idle"
    /\ \E speed \in GameSpeeds :
        /\ engine' = setGameSpeed(engine, speed)
        /\ objects' = [objects EXCEPT ![thisConfig].gameSpeed = speed]
    /\ UNCHANGED << pc, seed, tickLocals, thisConfig, other, world >>

TickBeginPair == TickBeginUpTo(MaxTickPair)
NextPair ==
    \/ ConstructSecond
    \/ Initialize
    \/ ResetPair
    \/ SeedStepPair
    \/ InitializeEnd
    \/ Start
    \/ Pause
    \/ SetGameSpeedPair
    \/ TickBeginPair
    \/ TickRest

SpecPair == InitPair /\ [][NextPair]_vars

\* ------------------------------------------------ sanitizing configurations
\* sanitizeConfig(config) on the configuration an engine was constructed with
SanitizeConfig ==
    /\ pc = "idle" /\ ~observed
    /\ log' = << [kind |-> "sanitizeConfig", before |-> engine.config,
                  result |-> sanitizeConfig(engine.config)] >>
    /\ UNCHANGED << engine, pc, seed, allGrass, allSheep, allWolves, newGrass, newSheep,
                    newWolves, processedSheepPositions, tickStart, gridBefore >>
    /\ UNCHANGED << pairVars, world >>

InitConfig == InitWith(ConfigInputs)
NextConfig == SanitizeConfig
SpecConfig == InitConfig /\ [][NextConfig]_vars

\* ---------------------------------------------------- the typed-array world
\* World (src/unnamed/part_008): parallel arrays indexed by the cell, on a
\* torus.  The field i of the model's world is the index of the loop of
\* update(); it is the size of the world when no update() is running.
ENTITY_EMPTY == 0
ENTITY_GRASS == 1
ENTITY_SHEEP == 2
ENTITY_WOLF == 3

\* the configuration of the World tests, on a smaller grid; grassRegrowthRate
\* in hundredths (0.05 in the source)
WorldConfig ==
    [gridSize |-> WORLD_SIZE, grassRegrowthRate |-> 0,
     sheepLifeExpectancy |-> 150, sheepEnergyDecay |-> 1,
     sheepReproductionThreshold |-> 3,
     wolfLifeExpectancy |-> 200, wolfEnergyDecay |-> 1,
     wolfReproductionThreshold |-> 10, wolfHuntingRadius |-> 1,
     sheepInitialCount |-> 0, wolfInitialCount |-> 0]

\* the same with one sheep and one wolf seeded
SeededWorldConfig ==
    [WorldConfig EXCEPT !.sheepInitialCount = 1, !.wolfInitialCount = 1]

\* a store into a Uint16Array
Uint16(v) == v % 65536

\* the % of JavaScript: the sign of the result is the sign of the dividend
jsMod(a, n) == IF a >= 0 THEN a % n ELSE 0 - ((0 - a) % n)

\* new World(config), with the arrays cleared as the tests clear them
newWorld(config) ==
    LET size == config.gridSize * config.gridSize
    IN  [config |-> config, width |-> config.gridSize, height |-> config.gridSize,
         size |-> size,
         typeGrid |-> [c \in 0..(size - 1) |-> ENTITY_EMPTY],
         ageGrid |-> [c \in 0..(size - 1) |-> 0],
         energyGrid |-> [c \in 0..(size - 1) |-> 0],
         movedGrid |-> [c \in 0..(size - 1) |-> 0],
         stats |-> [grass |-> 0, sheep |-> 0, wolf |-> 0, tick |-> 0],
         i |-> size]

\* this.typeGrid[index], undefined (-1) outside the array
typeAt(w, index) == IF index \in DOMAIN w.typeGrid THEN w.typeGrid[index] ELSE 0 - 1

spawn(w, index, type, energy, age) ==
    [w EXCEPT !.typeGrid[index] = type, !.energyGrid[index] = Uint16(energy),
              !.ageGrid[index] = Uint16(age), !.movedGrid[index] = 1]

\* the offsets of the two nested loops, dy outside and dx inside
scanOffsets(radius) ==
    [k \in 1..((2 * radius + 1) * (2 * radius + 1)) |->
        << ((k - 1) % (2 * radius + 1)) - radius,
           ((k - 1) \div (2 * radius + 1)) - radius >>]

\* the cell at an offset from a cell, on the torus
wrapped(w, index, offset) ==
    LET x == index % w.width
        y == index \div w.width
        nx == jsMod(x + offset[1] + w.width, w.width)
        ny == jsMod(y + offset[2] + w.height, w.height)
    IN  ny * w.width + nx

getNeighbors(w, index, radius) ==
    LET offsets == SelectSeq(scanOffsets(radius), LAMBDA o : ~(o[1] = 0 /\ o[2] = 0))
    IN  [k \in 1..Len(offsets) |-> wrapped(w, index, offsets[k])]

\* moveEntity, but the entity is not marked as moved
moveEntityUnmarked(w, from, to) ==
    [w EXCEPT !.typeGrid[to] = w.typeGrid[from], !.typeGrid[from] = ENTITY_EMPTY]

moveEntity(w, from, to) ==
    [w EXCEPT !.typeGrid[to] = w.typeGrid[from], !.typeGrid[from] = ENTITY_EMPTY,
              !.movedGrid[to] = 1]

kill(w, index) ==
    [w EXCEPT !.typeGrid[index] = ENTITY_EMPTY, !.ageGrid[index] = 0,
              !.energyGrid[index] = 0]

updateStats(w) ==
    LET count(t) == Cardinality({c \in DOMAIN w.typeGrid : w.typeGrid[c] = t})
    IN  [w EXCEPT !.stats.grass = count(ENTITY_GRASS),
                  !.stats.sheep = count(ENTITY_SHEEP),
                  !.stats.wolf = count(ENTITY_WOLF)]

\* what an update of one animal did: the world it leaves, and where it went
acted(w, outcome, target, birthSpot) ==
    [world |-> w, outcome |-> outcome, target |-> target, birthSpot |-> birthSpot]

\* "3. Reproduce" of updateSheep and "Reproduce" of updateWolf, after the move
\* to target and the store of the energy
reproduce(w, target, energy, threshold, type, babyEnergy, cost) ==
    IF energy >= threshold * 10
    THEN LET breedNeighbors == SelectSeq(getNeighbors(w, target, 1),
                                         LAMBDA n : typeAt(w, n) = ENTITY_EMPTY)
         IN  IF Len(breedNeighbors) > 0
             THEN {acted([spawn(w, birthSpot, type, babyEnergy, 0) EXCEPT
                              !.energyGrid[target] = Uint16(@ - cost)],
                         "moved", target, birthSpot) :
                     birthSpot \in Range(breedNeighbors)}
             ELSE {acted(w, "moved", target, 0 - 1)}
    ELSE {acted(w, "moved", target, 0 - 1)}

\* "No move possible, stay put" and "Blocked by another wolf, stay"
stay(w, i, age, energy) ==
    acted([w EXCEPT !.energyGrid[i] = Uint16(energy), !.ageGrid[i] = Uint16(age),
                    !.movedGrid[i] = 1], "stayed", 0 - 1, 0 - 1)

\* updateSheep(i) from "Move" on, with the target drawn
sheepMove(w, i, target, age, energy) ==
    LET targetType == typeAt(w, target)
        fed == IF targetType = ENTITY_GRASS THEN energy + 20 ELSE energy
        stored == [moveEntity(w, i, target) EXCEPT !.energyGrid[target] = Uint16(fed),
                                                   !.ageGrid[target] = Uint16(age)]
    IN  reproduce(stored, target, fed, w.config.sheepReproductionThreshold,
                  ENTITY_SHEEP, 50, 30)

\* World.updateSheep(i): every outcome the random draws can lead to
worldUpdateSheep(w, i) ==
    LET age == w.ageGrid[i] + 1
        energy == w.energyGrid[i] - w.config.sheepEnergyDecay
        validMoves == SelectSeq(getNeighbors(w, i, 1),
                                LAMBDA n : typeAt(w, n) = ENTITY_EMPTY
                                           \/ typeAt(w, n) = ENTITY_GRASS)
    IN  IF age > w.config.sheepLifeExpectancy \/ energy <= 0
        THEN {acted(kill(w, i), "died", 0 - 1, 0 - 1)}
        ELSE IF Len(validMoves) > 0
             THEN UNION {sheepMove(w, i, target, age, energy) :
                            target \in Range(validMoves)}
             ELSE {stay(w, i, age, energy)}

\* "Find closest sheep": the loops from the k-th offset on; minDist is -1 for
\* Infinity
RECURSIVE closestSheepFrom(_, _, _, _, _)
closestSheepFrom(w, i, offsets, k, found) ==
    IF k > Len(offsets) THEN found
    ELSE LET dx == offsets[k][1]
             dy == offsets[k][2]
             idx == wrapped(w, i, offsets[k])
             dist == dx * dx + dy * dy
             next == IF ~(dx = 0 /\ dy = 0)
                        /\ typeAt(w, idx) = ENTITY_SHEEP
                        /\ (found.minDist = 0 - 1 \/ dist < found.minDist)
                     THEN [target |-> idx, minDist |-> dist]
                     ELSE found
         IN  IF next.target = 0 - 1
             THEN closestSheepFrom(w, i, offsets, k + 1, found)
             ELSE closestSheepFrom(w, i, offsets, k + 1, next)

\* closestSheep, but no sheep is ever seen
closestSheepSeesNothing(w, i) == [target |-> 0 - 1, minDist |-> 0 - 1]

closestSheep(w, i) ==
    closestSheepFrom(w, i, scanOffsets(w.config.wolfHuntingRadius), 1,
                     [target |-> 0 - 1, minDist |-> 0 - 1])

\* "Move closer": one step along the signs of the wrapped difference
stepCloser(w, i, target) ==
    LET rx == i % w.width
        ry == i \div w.width
        dx0 == (target % w.width) - rx
        dy0 == (target \div w.width) - ry
        dx1 == IF 2 * dx0 > w.width THEN dx0 - w.width ELSE dx0
        dx == IF 2 * dx1 < 0 - w.width THEN dx1 + w.width ELSE dx1
        dy1 == IF 2 * dy0 > w.height THEN dy0 - w.height ELSE dy0
        dy == IF 2 * dy1 < 0 - w.height THEN dy1 + w.height ELSE dy1
    IN  wrapped(w, i, << Sign(dx), Sign(dy) >>)

\* updateWolf(i): the cells nextUnknownPos can be
nextUnknownPos(w, i) ==
    LET found == closestSheep(w, i)
    IN  IF found.target # 0 - 1
        THEN IF found.minDist <= 2 THEN {found.target}
             ELSE {stepCloser(w, i, found.target)}
        ELSE Range(getNeighbors(w, i, 1))

\* updateWolf(i) from "Execute Move" on
wolfMove(w, i, next, age, energy) ==
    LET targetType == typeAt(w, next)
        fed == IF targetType = ENTITY_SHEEP THEN energy + 50 ELSE energy
        stored == [moveEntity(w, i, next) EXCEPT !.energyGrid[next] = Uint16(fed),
                                                 !.ageGrid[next] = Uint16(age)]
    IN  IF targetType # ENTITY_WOLF
        THEN reproduce(stored, next, fed, w.config.wolfReproductionThreshold,
                       ENTITY_WOLF, 80, 40)
        ELSE {stay(w, i, age, energy)}

\* World.updateWolf(i): every outcome the random draws can lead to
worldUpdateWolf(w, i) ==
    LET age == w.ageGrid[i] + 1
        energy == w.energyGrid[i] - w.config.wolfEnergyDecay
    IN  IF age > w.config.wolfLifeExpectancy \/ energy <= 0
        THEN {acted(kill(w, i), "died", 0 - 1, 0 - 1)}
        ELSE UNION {wolfMove(w, i, next, age, energy) : next \in nextUnknownPos(w, i)}

\* "Chance to grow grass": whether Math.random() < grassRegrowthRate * 0.01
\* can hold and can fail
regrowthDraws(config) ==
    {b \in BOOLEAN : IF b THEN config.grassRegrowthRate > 0
                           ELSE config.grassRegrowthRate < 10000}

\* one pass of the loop of update(), on the cell w.i
updateCell(w) ==
    LET i == w.i
        type == w.typeGrid[i]
    IN  IF type = ENTITY_EMPTY
        THEN {acted(IF grows THEN [w EXCEPT !.typeGrid[i] = ENTITY_GRASS,
                                            !.ageGrid[i] = 0]
                    ELSE w, "empty", 0 - 1, 0 - 1) : grows \in regrowthDraws(w.config)}
        ELSE IF w.movedGrid[i] # 0 THEN {acted(w, "skipped", 0 - 1, 0 - 1)}
        ELSE IF type = ENTITY_GRASS
             THEN {acted([w EXCEPT !.ageGrid[i] = Uint16(@ + 1)], "grass", 0 - 1, 0 - 1)}
        ELSE IF type = ENTITY_SHEEP THEN worldUpdateSheep(w, i)
        ELSE worldUpdateWolf(w, i)

\* the entities the tests spawn: grass, and animals that starve in the
\* update, live on, or can reach the reproduction threshold in it
WorldSpawns ==
    {[type |-> ENTITY_GRASS, energy |-> 0]}
        \cup {[type |-> ENTITY_SHEEP, energy |-> e] : e \in {1, 5, 31}}
        \cup {[type |-> ENTITY_WOLF, energy |-> e] : e \in {1, 5, 51}}

occupiedCells(w) == {c \in DOMAIN w.typeGrid : w.typeGrid[c] # ENTITY_EMPTY}

InitWorld ==
    /\ world = newWorld(WorldConfig)
    /\ engine = NULL
    /\ objects = << >> /\ thisConfig = 0 /\ other = NULL
    /\ InitLocals

\* world.spawn(index, type, energy, 0) on an empty cell, before update()
WorldSpawn ==
    /\ pc = "idle" /\ world.stats.tick = 0
    /\ Cardinality(occupiedCells(world)) < MaxSpawned
    /\ \E index \in DOMAIN world.typeGrid, entity \in WorldSpawns :
        /\ world.typeGrid[index] = ENTITY_EMPTY
        /\ world' = spawn(world, index, entity.type, entity.energy, 0)
    /\ UNCHANGED << engine, pc, seed, tickLocals, pairVars >>

\* update(), up to the loop
WorldUpdateBegin ==
    /\ pc = "idle" /\ world.stats.tick < MaxWorldTick
    /\ world' = [world EXCEPT !.stats.tick = @ + 1,
                              !.movedGrid = [c \in DOMAIN @ |-> 0],
                              !.i = 0]
    /\ pc' = "update"
    /\ tickStart' = world
    /\ gridBefore' = NULL
    /\ log' = << >>
    /\ UNCHANGED << engine, seed, allGrass, allSheep, allWolves, newGrass, newSheep,
                    newWolves, processedSheepPositions, pairVars >>

\* one pass of the loop of update()
WorldUpdateCell ==
    /\ pc = "update" /\ world.i < world.size
    /\ \E result \in updateCell(world) :
        /\ world' = [result.world EXCEPT !.i = @ + 1]
        /\ log' = IF world.movedGrid[world.i] = 0
                      /\ world.typeGrid[world.i] \in {ENTITY_SHEEP, ENTITY_WOLF}
                   THEN Append(log, [kind |-> IF world.typeGrid[world.i] = ENTITY_SHEEP
                                              THEN "updateSheep" ELSE "updateWolf",
                                     index |-> world.i,
                                     outcome |-> result.outcome,
                                     target |-> result.target,
                                     birthSpot |-> result.birthSpot])
                   ELSE log
    /\ gridBefore' = world
    /\ UNCHANGED << engine, pc, seed, allGrass, allSheep, allWolves, newGrass, newSheep,
                    newWolves, processedSheepPositions, tickStart, pairVars >>

\* update(), after the loop
WorldUpdateEnd ==
    /\ pc = "update" /\ world.i = world.size
    /\ world' = updateStats(world)
    /\ pc' = "idle"
    /\ UNCHANGED << engine, seed, tickLocals, pairVars >>

NextWorld ==
    \/ WorldSpawn
    \/ WorldUpdateBegin
    \/ WorldUpdateCell
    \/ WorldUpdateEnd

SpecWorld == InitWorld /\ [][NextWorld]_vars

\* ------------------------------------------------- the World of early breeders
\* the same World and steps, configured with reproduction thresholds of 1
EagerWorldConfig ==
    [WorldConfig EXCEPT !.sheepReproductionThreshold = 1,
                        !.wolfReproductionThreshold = 1]

InitWorldEager ==
    /\ world = newWorld(EagerWorldConfig)
    /\ engine = NULL
    /\ objects = << >> /\ thisConfig = 0 /\ other = NULL
    /\ InitLocals

SpecWorldEager == InitWorldEager /\ [][NextWorld]_vars

\* ------------------------------------------------------- the seeded World
\* new World(config) and world.reset(), which seed the grid, and update().
\* seed(): "Seed Grass": every cell is spawned grass on a draw below 0.2; the
\* draws explored spawn grass on at most MaxSeededGrass cells.
seedGrass(w) ==
    LET grown(cells) == [w EXCEPT
            !.typeGrid = [c \in DOMAIN @ |-> IF c \in cells THEN ENTITY_GRASS ELSE @[c]],
            !.energyGrid = [c \in DOMAIN @ |-> IF c \in cells THEN 0 ELSE @[c]],
            !.ageGrid = [c \in DOMAIN @ |-> IF c \in cells THEN 0 ELSE @[c]],
            !.movedGrid = [c \in DOMAIN @ |-> IF c \in cells THEN 1 ELSE @[c]]]
    IN  {grown(cells) : cells \in {S \in SUBSET DOMAIN w.typeGrid :
                                        Cardinality(S) <= MaxSeededGrass}}

\* seed(): "Seed Sheep" / "Seed Wolves": count spawns, each on a drawn cell,
\* whatever it holds; the draws explored are the cells 0..MaxSeededIndex
RECURSIVE seedAnimals(_, _, _, _)
seedAnimals(ws, type, energy, count) ==
    IF count <= 0 THEN ws
    ELSE seedAnimals({spawn(w, idx, type, energy, 0) :
                        w \in ws, idx \in 0..MaxSeededIndex},
                     type, energy, count - 1)

worldSeed(w) ==
    seedAnimals(seedAnimals(seedGrass(w), ENTITY_SHEEP, 50, w.config.sheepInitialCount),
                ENTITY_WOLF, 100, w.config.wolfInitialCount)

\* reset(): the worlds it can leave
worldReset(w) ==
    worldSeed([w EXCEPT !.typeGrid = [c \in DOMAIN @ |-> ENTITY_EMPTY],
                        !.ageGrid = [c \in DOMAIN @ |-> 0],
                        !.energyGrid = [c \in DOMAIN @ |-> 0],
                        !.movedGrid = [c \in DOMAIN @ |-> 0],
                        !.stats = [grass |-> 0, sheep |-> 0, wolf |-> 0, tick |-> 0]])

\* new World(config): the fields, then this.reset()
InitWorldSeeded ==
    /\ world \in worldReset(newWorld(SeededWorldConfig))
    /\ engine = NULL
    /\ objects = << >> /\ thisConfig = 0 /\ other = NULL
    /\ InitLocals

\* world.reset()
WorldReset ==
    /\ pc = "idle"
    /\ world' \in worldReset(world)
    /\ tickStart' = NULL /\ gridBefore' = NULL /\ log' = << >>
    /\ UNCHANGED << engine, pc, seed, allGrass, allSheep, allWolves, newGrass, newSheep,
                    newWolves, processedSheepPositions, pairVars >>

NextWorldSeeded ==
    \/ WorldReset
    \/ WorldUpdateBegin
    \/ WorldUpdateCell
    \/ WorldUpdateEnd

SpecWorldSeeded == InitWorldSeeded /\ [][NextWorldSeeded]_vars

\* ---------------------------------------------------------------- properties
\* What the properties read off the running tick.
lastIsAnimal == last.kind \in {"sheep", "wolf"}
lastAteAt == IF last.kind = "sheep" THEN last.result.ateGrassAt ELSE last.result.ateSheepAt
lastParams == IF last.kind = "sheep" THEN engine.config.sheep ELSE engine.config.wolf
\* the incremented age is below 0.8 * lifeExpectancy: no death of old age
tooYoungToDie(age, lifeExpectancy) == 5 * (age + 1) < 4 * lifeExpectancy
\* the cells at Manhattan distance 1, in the order findClosestInRadius scans them
CardinalScan == << [dx |-> 0, dy |-> -1], [dx |-> -1, dy |-> 0],
                   [dx |-> 1, dy |-> 0], [dx |-> 0, dy |-> 1] >>
adjacentSheep(g, x, y) ==
    LET cells == [i \in 1..Len(CardinalScan) |->
                    Pos(x + CardinalScan[i].dx, y + CardinalScan[i].dy)]
        HoldsSheep(p) == isValidPosition(p.x, p.y) /\ getType(g, p.x, p.y) = SHEEP
    IN  SelectSeq(cells, HoldsSheep)
countOfType(entities, t) == Cardinality({i \in 1..Len(entities) : entities[i].type = t})
\* a step that enters initialize(), from initialize() or reset()
EntersInitialize == pc = "idle" /\ pc' = "seed"
\* the state right after initialize() or reset()
JustInitialized ==
    pc = "idle" /\ getTick(engine) = 0 /\ getHistory(engine) # << >>

\* C1: in every reachable state, for every cell, getType is EMPTY exactly when
\* get is null, and on a non-empty cell getType is the type field of the record
\* that get returns.
C1_TypeAgreesWithRecord ==
    \A p \in AllCells :
        /\ getType(engine.grid, p.x, p.y) = EMPTY <=> get(engine.grid, p.x, p.y) = NULL
        /\ get(engine.grid, p.x, p.y) # NULL
              => getType(engine.grid, p.x, p.y) = get(engine.grid, p.x, p.y).type

\* C1, its case: a tick is over and a sheep that ate in it (its record was
\* written over a grass record, its old cell cleared) stands on the grid.
C1_Witness ==
    /\ pc = "idle" /\ getTick(engine) >= 1
    /\ \E p \in AllCells :
          /\ getType(engine.grid, p.x, p.y) = SHEEP
          /\ get(engine.grid, p.x, p.y).age >= 1
          /\ get(engine.grid, p.x, p.y).ticksSinceLastMeal = 0
    /\ \E p \in AllCells : getType(engine.grid, p.x, p.y) = EMPTY

\* C2 as stated: whenever hasEnded() is true, isRunning() is false (hasEnded()
\* stays true until reset(), so this covers every later start(), pause(),
\* togglePause(), setGameSpeed() and tick()).
C2_EndedIsNotRunning == hasEnded(engine) => ~isRunning(engine)

\* C3 as stated: an animal whose ticksSinceLastMeal is starvationTime - 1 before
\* its update, and which does not die of old age, is not starved by that update.
C3_BoundarySurvives ==
    (/\ lastIsAnimal
     /\ last.before.ticksSinceLastMeal = lastParams.starvationTime - 1
     /\ last.result.cause # "age")
        => last.result.cause # "starvation"

\* C3, amended: an animal that does not die of old age passes the starvation
\* check of its update exactly when its ticksSinceLastMeal before the update is
\* at most starvationTime - 2 (the counter is incremented before the check, and
\* the check is counter >= starvationTime).
C3_SurvivesUpToTwoBelow ==
    (lastIsAnimal /\ last.result.cause # "age")
        => (last.result.cause # "starvation"
                <=> last.before.ticksSinceLastMeal <= lastParams.starvationTime - 2)

\* C3, its case: a sheep at starvationTime - 2 before its update has passed the
\* starvation check.
C3_Witness ==
    /\ last.kind = "sheep"
    /\ last.before.ticksSinceLastMeal = engine.config.sheep.starvationTime - 2
    /\ last.result.alive

\* C4: an update of an animal whose ticksSinceLastMeal is starvationTime - 1
\* returns alive = false, food adjacent or not; an update of an animal too young
\* to die of age whose ticksSinceLastMeal is below starvationTime - 1 returns
\* alive = true.
C4_StarvesAtBoundary ==
    lastIsAnimal =>
        /\ last.before.ticksSinceLastMeal = lastParams.starvationTime - 1
              => ~last.result.alive
        /\ (/\ last.before.ticksSinceLastMeal < lastParams.starvationTime - 1
            /\ tooYoungToDie(last.before.age, lastParams.lifeExpectancy))
              => last.result.alive

\* C4, its case: a sheep at starvationTime - 1 with grass on a neighbouring cell
\* has been starved by its update.
C4_Witness ==
    /\ last.kind = "sheep"
    /\ last.before.ticksSinceLastMeal = engine.config.sheep.starvationTime - 1
    /\ last.result.cause = "starvation"
    /\ \E i \in 1..Len(getNeighborPositions(last.before.x, last.before.y)) :
          LET p == getNeighborPositions(last.before.x, last.before.y)[i]
          IN  getType(gridBefore, p.x, p.y) = GRASS

\* C5 as stated: right after initialize() or reset(), when the three
\* initialCount values sum to less than the number of cells,
\* getPopulationCounts() is exactly the three initialCount values.
C5_SeededCountsAreInitialCounts ==
    (/\ JustInitialized
     /\ engine.config.grass.initialCount + engine.config.sheep.initialCount
            + engine.config.wolf.initialCount < GRID_SIZE)
        => getPopulationCounts(engine) =
              [grass |-> engine.config.grass.initialCount,
               sheep |-> engine.config.sheep.initialCount,
               wolves |-> engine.config.wolf.initialCount]

\* C6 as stated: when an animal eats in its update and foodEaten reaches
\* breedThreshold, the newborn is placed on the cell the parent held before
\* its move.
C6_NewbornOnVacatedCell ==
    (/\ lastIsAnimal
     /\ last.result.alive
     /\ lastAteAt # NULL
     /\ last.before.foodEaten + 1 >= lastParams.breedThreshold)
        => /\ last.result.spawn # NULL
           /\ last.result.spawn.x = last.before.x
           /\ last.result.spawn.y = last.before.y

\* C7 as stated: when the wolf phase of a tick is over, a wolf that stood at
\* Manhattan distance 1 from a sheep when tick() was called (huntingRadius >= 1,
\* the wolf and every sheep alive after their updates) stands on the cell such
\* a sheep held, has eaten (foodEaten one up, or reset by breeding) and has
\* ticksSinceLastMeal 0.
C7_EatsSheepAdjacentBeforeTick ==
    (pc = "wolves" /\ allWolves = << >> /\ engine.config.wolf.huntingRadius >= 1)
        => \A i \in 1..Len(log) :
              (/\ log[i].kind = "wolf"
               /\ log[i].result.alive
               /\ adjacentSheep(tickStart, log[i].before.x, log[i].before.y) # << >>
               /\ \A j \in 1..Len(log) :
                     log[j].kind = "sheep" => log[j].result.alive)
                 => /\ Pos(log[i].result.ent.x, log[i].result.ent.y)
                          \in Range(adjacentSheep(tickStart, log[i].before.x,
                                                  log[i].before.y))
                    /\ log[i].result.ateSheepAt # NULL
                    /\ log[i].result.ent.ticksSinceLastMeal = 0
                    /\ \/ log[i].result.ent.foodEaten = log[i].before.foodEaten + 1
                       \/ log[i].result.ent.foodEaten = 0

\* C7, amended: if a sheep is at Manhattan distance 1 from a wolf when the
\* wolf's update runs (after the sheep phase of the same tick), huntingRadius
\* is >= 1 and the wolf does not die in the update, then after the update the
\* wolf's record stands on the cell of the first such sheep in scan order
\* (north, west, east, south), the sheep's record is gone, foodEaten is one up
\* (or reset by breeding) and ticksSinceLastMeal is 0.
C7_EatsSheepAdjacentAtUpdate ==
    (/\ last.kind = "wolf"
     /\ last.result.alive
     /\ engine.config.wolf.huntingRadius >= 1
     /\ adjacentSheep(gridBefore, last.before.x, last.before.y) # << >>)
        => LET target == Head(adjacentSheep(gridBefore, last.before.x, last.before.y))
               wolf == last.result.ent
           IN  /\ wolf.x = target.x /\ wolf.y = target.y
               /\ last.result.ateSheepAt = target
               /\ get(engine.grid, target.x, target.y) = wolf
               /\ getType(engine.grid, target.x, target.y) = WOLF
               /\ wolf.ticksSinceLastMeal = 0
               /\ \/ wolf.foodEaten = last.before.foodEaten + 1
                  \/ /\ wolf.foodEaten = 0
                     /\ last.before.foodEaten + 1 >= engine.config.wolf.breedThreshold

\* C7, its case: a wolf with a sheep at distance 1 at its update has survived
\* the update, in a tick in which that sheep was not next to it at the start.
C7_Witness ==
    /\ last.kind = "wolf"
    /\ last.result.alive
    /\ adjacentSheep(gridBefore, last.before.x, last.before.y) # << >>
    /\ adjacentSheep(tickStart, last.before.x, last.before.y) = << >>

\* C8: the step that ends a tick with a count of zero leaves hasEnded() true,
\* isRunning() false and getExtinctPopulation() 'grass' if grass is 0, else
\* 'sheep' if sheep is 0, else 'wolves'; the step that ends a tick with all
\* three counts non-zero leaves hasEnded() as it was.
C8_ExtinctionReportedInPriorityOrder ==
    [][(pc = "wolves" /\ pc' = "idle")
        => LET counts == getCounts(engine'.grid)
           IN  /\ (counts.grass = 0 \/ counts.sheep = 0 \/ counts.wolves = 0)
                     => /\ hasEnded(engine')
                        /\ ~isRunning(engine')
                        /\ getExtinctPopulation(engine') =
                              IF counts.grass = 0 THEN "grass"
                              ELSE IF counts.sheep = 0 THEN "sheep" ELSE "wolves"
               /\ (counts.grass > 0 /\ counts.sheep > 0 /\ counts.wolves > 0)
                     => hasEnded(engine') = hasEnded(engine)]_vars

\* C8, its case: a tick of a running engine is about to end with the sheep
\* and the wolves both gone and grass left.
C8_Witness ==
    /\ pc = "wolves" /\ allWolves = << >>
    /\ isRunning(engine)
    /\ getCounts(commitNewborns(engine.grid, newWolves)).grass > 0
    /\ getCounts(commitNewborns(engine.grid, newWolves)).sheep = 0
    /\ getCounts(commitNewborns(engine.grid, newWolves)).wolves = 0

\* C9 as stated: once getExtinctPopulation() is non-null, no step other than
\* the entry to initialize() (from initialize() or reset()) changes it.
C9_ExtinctionCauseSetOnce ==
    [][(getExtinctPopulation(engine) # "null" /\ ~EntersInitialize)
        => getExtinctPopulation(engine') = getExtinctPopulation(engine)]_vars

\* C10: between calls, getCounts() equals kind by kind the number of records
\* of that kind in getAllEntities(), getPopulationCounts() equals getCounts(),
\* the three counts are >= 0 and their sum is at most the number of cells.
C10_CountsAgree ==
    pc = "idle" =>
        LET counts == getCounts(engine.grid)
            all == getAllEntities(engine.grid)
        IN  /\ counts.grass = countOfType(all, GRASS)
            /\ counts.sheep = countOfType(all, SHEEP)
            /\ counts.wolves = countOfType(all, WOLF)
            /\ Len(all) = counts.grass + counts.sheep + counts.wolves
            /\ getPopulationCounts(engine) = counts
            /\ counts.grass >= 0 /\ counts.sheep >= 0 /\ counts.wolves >= 0
            /\ counts.grass + counts.sheep + counts.wolves <= GRID_SIZE

\* C10, its case: two ticks are over and all three kinds are on the grid, with
\* more records than were seeded.
C10_Witness ==
    /\ pc = "idle" /\ getTick(engine) = 2
    /\ getPopulationCounts(engine).grass >= 1
    /\ getPopulationCounts(engine).sheep >= 1
    /\ getPopulationCounts(engine).wolves >= 1
    /\ Len(getAllEntities(engine.grid)) >= 4

\* What the properties read off the latest update, of any kind.
lastIsUpdate == last.kind \in UpdateKinds
lastLifeExpectancy ==
    IF last.kind = "grass" THEN engine.config.grass.lifeExpectancy
    ELSE lastParams.lifeExpectancy
\* the incremented age of the latest update against 0.8 and 1.2 times L
lastAgeBelowWindow == 5 * (last.before.age + 1) < 4 * lastLifeExpectancy
lastAgeAtWindowStart == 5 * (last.before.age + 1) = 4 * lastLifeExpectancy
lastAgeAboveWindow == 5 * (last.before.age + 1) >= 6 * lastLifeExpectancy
\* the update of the same entity on the same grid can and can fail to return an
\* old-age death
lastBothOutcomes ==
    /\ \E r \in updateOf(last.before, gridBefore, engine.config) : r.cause = "age"
    /\ \E r \in updateOf(last.before, gridBefore, engine.config) : r.cause # "age"
outOfRange(p) == p.x < 0 \/ p.x >= GRID_WIDTH \/ p.y < 0 \/ p.y >= GRID_HEIGHT
Max(a, b) == IF a >= b THEN a ELSE b
\* the cells at Chebyshev distance 1
cellsAround(p) == {q \in AllCells : Max(Abs(q.x - p.x), Abs(q.y - p.y)) = 1}
\* the records on a grid, read cell by cell
recordsOn(g) == {get(g, p.x, p.y) : p \in AllCells} \ {NULL}
\* the number of coordinates of a cell that lie on an edge of the grid
edgesOf(p) ==
    (IF p.x = 0 \/ p.x = GRID_WIDTH - 1 THEN 1 ELSE 0)
        + (IF p.y = 0 \/ p.y = GRID_HEIGHT - 1 THEN 1 ELSE 0)

\* C11 as stated: an update of an entity whose age is lifeExpectancy - 1 before
\* the update returns alive = false.
C11_DiesAtLifeExpectancy ==
    (lastIsUpdate /\ last.before.age = lastLifeExpectancy - 1) => ~last.result.alive

\* C12 as stated: an update with the incremented age below 0.8 L returns no
\* old-age death, one with the incremented age at or above 1.2 L returns
\* alive = false, and for every age from 0.8 L up to 1.2 L both outcomes are
\* possible.
C12_WindowFromFourFifths ==
    lastIsUpdate =>
        /\ lastAgeBelowWindow => last.result.cause # "age"
        /\ lastAgeAboveWindow => ~last.result.alive
        /\ (~lastAgeBelowWindow /\ ~lastAgeAboveWindow) => lastBothOutcomes

\* C12, amended: as stated, but both outcomes are possible for the ages
\* strictly between 0.8 L and 1.2 L; at exactly 0.8 L the chance is 0 and the
\* update returns no old-age death.
C12_WindowAboveFourFifths ==
    lastIsUpdate =>
        /\ lastAgeBelowWindow => last.result.cause # "age"
        /\ lastAgeAboveWindow => ~last.result.alive
        /\ (~lastAgeBelowWindow /\ ~lastAgeAtWindowStart /\ ~lastAgeAboveWindow)
              => lastBothOutcomes
        /\ lastAgeAtWindowStart => last.result.cause # "age"

\* C12, its case: a sheep whose incremented age is strictly inside the window
\* has survived its update.
C12_Witness ==
    /\ last.kind = "sheep"
    /\ ~lastAgeBelowWindow /\ ~lastAgeAtWindowStart /\ ~lastAgeAboveWindow
    /\ last.result.alive

\* C13: inside a tick every entity still waiting in a snapshot is the record
\* the grid holds on its cell, no sheep is skipped, and the updates applied so
\* far are those of entities of the grid tick() started on, each once; when the
\* wolf phase is over every such entity has had its update, and every record on
\* the grid the tick leaves is a newborn of age 0 or the survivor of one update
\* with its age one up; no record ever has a negative age, foodEaten or
\* ticksSinceLastMeal.
C13_EveryEntityUpdatedOnce ==
    /\ \A e \in recordsOn(engine.grid) :
          /\ e.age >= 0
          /\ e.type # GRASS => (e.foodEaten >= 0 /\ e.ticksSinceLastMeal >= 0)
    /\ pc \in {"grass", "sheep", "wolves"} =>
          /\ \A e \in Range(allGrass) \cup Range(allSheep) \cup Range(allWolves) :
                get(engine.grid, e.x, e.y) = e
          /\ \A i \in 1..Len(log) :
                /\ log[i].kind # "skipped"
                /\ log[i].before \in recordsOn(tickStart)
                /\ \A j \in 1..Len(log) : log[j].before = log[i].before => j = i
    /\ (pc = "wolves" /\ allWolves = << >>) =>
          /\ {log[i].before : i \in 1..Len(log)} = recordsOn(tickStart)
          /\ \A e \in recordsOn(commitNewborns(engine.grid, newWolves)) :
                \/ e.age = 0
                \/ \E i \in 1..Len(log) :
                      /\ log[i].result.alive
                      /\ log[i].result.ent = e
                      /\ e.age = log[i].before.age + 1

\* C13, its case: the wolf phase of the second tick is over, with a sheep born
\* in the first tick among the updated and a survivor on the grid.
C13_Witness ==
    /\ pc = "wolves" /\ allWolves = << >>
    /\ getTick(engine) = 2
    /\ Len(log) >= 3
    /\ \E i \in 1..Len(log) :
          /\ log[i].kind = "sheep"
          /\ log[i].before.age = 0
          /\ log[i].result.alive
          /\ log[i].result.ent \in recordsOn(engine.grid)

\* the history holds consecutive tick numbers, at most MAX_HISTORY_LENGTH of
\* them, and between calls its last entry is (getTick(), getPopulationCounts())
HistoryInOrder(e, idle) ==
    LET history == getHistory(e)
    IN  /\ Len(history) <= MAX_HISTORY_LENGTH
        /\ \A i \in 1..(Len(history) - 1) : history[i + 1].tick = history[i].tick + 1
        /\ (idle /\ history # << >>) =>
              history[Len(history)] =
                  [tick |-> getTick(e), grass |-> getPopulationCounts(e).grass,
                   sheep |-> getPopulationCounts(e).sheep,
                   wolves |-> getPopulationCounts(e).wolves]

\* C14: tick() raises getTick() by 1 at its start and leaves it alone afterwards;
\* it leaves the history alone until its end, where it appends one entry with
\* the tick number and the counts of the grid, dropping the oldest entry when
\* the cap is exceeded; the history never exceeds the cap, its tick numbers are
\* consecutive, and between calls its last entry is (getTick(), counts).
C14_OneHistoryEntryPerTick ==
    [][/\ (pc = "idle" /\ pc' = "grass") => getTick(engine') = getTick(engine) + 1
       /\ pc \in {"grass", "sheep", "wolves"} => getTick(engine') = getTick(engine)
       /\ (pc # "seed" /\ pc' \in {"grass", "sheep", "wolves"})
             => getHistory(engine') = getHistory(engine)
       /\ (pc = "wolves" /\ pc' = "idle") =>
             LET counts == getCounts(engine'.grid)
                 entry == [tick |-> getTick(engine), grass |-> counts.grass,
                           sheep |-> counts.sheep, wolves |-> counts.wolves]
                 history == getHistory(engine)
             IN  getHistory(engine') =
                    IF Len(history) < MAX_HISTORY_LENGTH THEN Append(history, entry)
                    ELSE Append(Tail(history), entry)
       /\ HistoryInOrder(engine', pc' = "idle")]_vars

\* C14, its case: the second tick is over and the entry of initialize() has
\* been dropped from the full history.
C14_Witness ==
    /\ pc = "idle" /\ getTick(engine) = 2
    /\ Len(getHistory(engine)) = MAX_HISTORY_LENGTH
    /\ getHistory(engine)[1].tick = 1

\* C15: the step in which initialize() returns leaves getTick() 0, the history
\* with the one entry (0, counts of the seeded grid), hasEnded() false and
\* getExtinctPopulation() null; when the call came from reset(), isRunning() is
\* false and, with a config passed, the configuration is that config.
C15_InitializeStartsOver ==
    [][(pc = "seed" /\ pc' = "idle") =>
          LET counts == getCounts(engine'.grid)
          IN  /\ getTick(engine') = 0
              /\ getHistory(engine') =
                    << [tick |-> 0, grass |-> counts.grass, sheep |-> counts.sheep,
                        wolves |-> counts.wolves] >>
              /\ getPopulationCounts(engine') = counts
              /\ ~hasEnded(engine')
              /\ getExtinctPopulation(engine') = "null"
              /\ last.kind = "reset" =>
                    /\ ~isRunning(engine')
                    /\ last.before # NULL => engine'.config = last.before]_vars

\* C15, its case: reset(config) called on a running engine that had ended is
\* about to return.
C15_Witness ==
    /\ pc = "seed" /\ seed = SeedDone
    /\ last.kind = "reset"
    /\ last.before # NULL /\ last.before # BaseConfig
    /\ last.from.isRunning /\ last.from.hasEnded
    /\ ~isRunning(engine) /\ ~hasEnded(engine)

\* tick, grid, counts, history, hasEnded() and getExtinctPopulation() agree
SameSimulation(e, r) ==
    /\ getTick(r) = getTick(e)
    /\ r.grid = e.grid
    /\ getPopulationCounts(r) = getPopulationCounts(e)
    /\ getHistory(r) = getHistory(e)
    /\ hasEnded(r) = hasEnded(e)
    /\ getExtinctPopulation(r) = getExtinctPopulation(e)

\* C16: between calls, start() gives isRunning() true, pause() false,
\* togglePause() the negation (twice: the engine as it was), setGameSpeed(n)
\* changes config.gameSpeed to n and nothing else, and none of the four changes
\* tick, grid, counts, history, hasEnded() or getExtinctPopulation().
C16_ControlsChangeOnlyTheirFlag ==
    pc = "idle" =>
        /\ isRunning(start(engine))
        /\ ~isRunning(pause(engine))
        /\ isRunning(togglePause(engine)) = ~isRunning(engine)
        /\ togglePause(togglePause(engine)) = engine
        /\ \A n \in GameSpeeds :
              /\ setGameSpeed(engine, n).config.gameSpeed = n
              /\ setGameSpeed(setGameSpeed(engine, n), engine.config.gameSpeed) = engine
              /\ SameSimulation(engine, setGameSpeed(engine, n))
              /\ isRunning(setGameSpeed(engine, n)) = isRunning(engine)
        /\ \A r \in {start(engine), pause(engine), togglePause(engine)} :
              /\ SameSimulation(engine, r)
              /\ r.config = engine.config

\* C16, its case: an engine that was started and had its speed set stands
\* between calls after a tick, not ended.
C16_Witness ==
    /\ pc = "idle" /\ getTick(engine) = 1
    /\ isRunning(engine) /\ ~hasEnded(engine)
    /\ engine.config.gameSpeed \in GameSpeeds

\* C17 as stated: after a seeding that was asked for more entities than the
\* grid has cells, every cell is occupied and no count exceeds the initialCount
\* of its kind.
C17_SeedingFillsTheGrid ==
    (/\ JustInitialized
     /\ engine.config.grass.initialCount + engine.config.sheep.initialCount
            + engine.config.wolf.initialCount > GRID_SIZE)
        => /\ Len(getAllEntities(engine.grid)) = GRID_SIZE
           /\ getPopulationCounts(engine).grass <= engine.config.grass.initialCount
           /\ getPopulationCounts(engine).sheep <= engine.config.sheep.initialCount
           /\ getPopulationCounts(engine).wolves <= engine.config.wolf.initialCount

C19_OutOfRangeIsEmpty ==
    (last.kind \in {"read", "set", "clear"} /\ outOfRange(last.before)) =>
        /\ last.kind = "read" =>
              /\ ~last.result.isValidPosition
              /\ last.result.getType = EMPTY
              /\ last.result.get = NULL
        /\ last.kind \in {"set", "clear"} => engine.grid = gridBefore

\* C19, its case: set was called with an entity on coordinates left of the
\* grid whose index falls inside the type array, on a grid that holds entities.
C19_Witness ==
    /\ last.kind = "set"
    /\ last.before = Pos(0 - 1, 1)
    /\ last.entity # NULL
    /\ getAllEntities(engine.grid) # << >>

\* C20: getNeighborPositions(x, y) returns, each once, the cells of the grid at
\* Chebyshev distance 1 from (x, y): 8 for an interior cell, 5 for an edge cell
\* that is no corner, 3 for a corner; getEmptyNeighbors(x, y) returns, each
\* once, those of them whose type is EMPTY.
C20_NeighborsAreCellsAround ==
    last.kind = "neighbors" =>
        LET neighbors == last.result.getNeighborPositions
            empty == last.result.getEmptyNeighbors
        IN  /\ Range(neighbors) = cellsAround(last.before)
            /\ Len(neighbors) = Cardinality(cellsAround(last.before))
            /\ Len(neighbors) = IF edgesOf(last.before) = 0 THEN 8
                                ELSE IF edgesOf(last.before) = 1 THEN 5 ELSE 3
            /\ Range(empty) = {q \in cellsAround(last.before) :
                                    getType(gridBefore, q.x, q.y) = EMPTY}
            /\ Len(empty) = Cardinality(Range(empty))

\* C20, its case: the neighbours of a corner were asked for on a grid that
\* holds an entity next to it.
C20_Witness ==
    /\ last.kind = "neighbors"
    /\ edgesOf(last.before) = 2
    /\ Len(last.result.getNeighborPositions) = 3
    /\ Len(last.result.getEmptyNeighbors) < 3

\* the Manhattan distance between two cells
manhattan(p, q) == Abs(p.x - q.x) + Abs(p.y - q.y)

\* the cells of the grid at Manhattan distance 1..radius from p that hold an
\* entity of the type
holdersInRadius(g, p, radius, entityType) ==
    {q \in AllCells : /\ manhattan(p, q) >= 1
                      /\ manhattan(p, q) <= radius
                      /\ get(g, q.x, q.y) # NULL
                      /\ get(g, q.x, q.y).type = entityType}

\* q is met before r by a scan with dy ascending, then dx ascending
scannedBefore(q, r) == q.y < r.y \/ (q.y = r.y /\ q.x < r.x)

\* C21: findClosestInRadius(x, y, r, kind) returns null exactly when no cell of
\* the grid at Manhattan distance 1..r from (x, y) holds an entity of the kind;
\* otherwise it returns the entity of the holder at the least distance that the
\* scan (dy ascending, then dx ascending) meets first, with that distance.
C21_ClosestIsNearestFirstScanned ==
    last.kind = "find" =>
        LET holders == holdersInRadius(gridBefore, last.before, last.radius,
                                       last.entityType)
            nearest == {q \in holders :
                            \A r \in holders :
                                manhattan(last.before, q) <= manhattan(last.before, r)}
        IN  /\ (last.result = NULL) = (holders = {})
            /\ last.result # NULL =>
                  \E q \in nearest :
                      /\ \A r \in nearest \ {q} : scannedBefore(q, r)
                      /\ last.result.entity = get(gridBefore, q.x, q.y)
                      /\ last.result.entity.type = last.entityType
                      /\ last.result.distance = manhattan(last.before, q)

\* C21, its case: two entities of the kind lie at the same least distance from
\* the centre of the search, and one of them is returned.
C21_Witness ==
    /\ last.kind = "find"
    /\ last.result # NULL
    /\ Cardinality({q \in holdersInRadius(gridBefore, last.before, last.radius,
                                           last.entityType) :
                        manhattan(last.before, q) = last.result.distance}) = 2

\* C22: sanitizeConfig returns a configuration equal to its input, with the same
\* fields and the same values, whenever every field of the input is within its
\* valid range.
C22_ValidConfigUnchanged ==
    (last.kind = "sanitizeConfig" /\ validConfig(last.before)) =>
        last.result = last.before

\* the default configuration is valid, and sanitizeConfig returns it without
\* grass.spreadRadius and sheep.grazingRadius
C22_DefaultLosesRadii ==
    /\ last.kind = "sanitizeConfig"
    /\ last.before = DEFAULT_CONFIG
    /\ validConfig(last.before)
    /\ last.result = formConfig(DEFAULT_CONFIG)
    /\ last.result # last.before

\* C23: the calls on one engine (initialize, reset, tick, start, pause,
\* setGameSpeed) never change what another engine constructed from the same
\* configuration object shows: its grid, config, tick, history and flags.
C23_OtherEngineUntouched ==
    other # NULL =>
        /\ observe(other.engine, objects, other.config) = other.seen
        /\ engine.config = deref(objects, thisConfig)

\* C23, its case: the first engine was initialized and started; on the second
\* one the game speed was set and a tick has run after initialize().
C23_Witness ==
    /\ other # NULL
    /\ other.seen.isRunning
    /\ other.seen.history # << >>
    /\ pc = "idle"
    /\ getTick(engine) > 0
    /\ engine.config.gameSpeed # other.seen.config.gameSpeed

\* the cells of a world that hold the type
cellsOfType(w, type) == {c \in DOMAIN w.typeGrid : w.typeGrid[c] = type}

\* an update() of the world has returned
updateReturned == world # NULL /\ pc = "idle" /\ world.stats.tick > 0

\* when update() was called the world held one wolf and one sheep, the sheep on
\* one of the 8 cells around the wolf, and the wolf passes its age and energy
\* check and stays below the reproduction threshold after a meal
huntCase(wolf, sheep) ==
    /\ cellsOfType(tickStart, ENTITY_WOLF) = {wolf}
    /\ cellsOfType(tickStart, ENTITY_SHEEP) = {sheep}
    /\ sheep \in Range(getNeighbors(tickStart, wolf, 1))
    /\ tickStart.ageGrid[wolf] + 1 <= tickStart.config.wolfLifeExpectancy
    /\ tickStart.energyGrid[wolf] - tickStart.config.wolfEnergyDecay > 0
    /\ tickStart.energyGrid[wolf] - tickStart.config.wolfEnergyDecay + 50
            < tickStart.config.wolfReproductionThreshold * 10

\* the wolf is on the cell of the sheep with the energy of the meal, its old
\* cell is empty and no sheep is left
hunted(wolf, sheep) ==
    /\ world.typeGrid[sheep] = ENTITY_WOLF
    /\ world.typeGrid[wolf] = ENTITY_EMPTY
    /\ cellsOfType(world, ENTITY_SHEEP) = {}
    /\ world.energyGrid[sheep] =
            tickStart.energyGrid[wolf] - tickStart.config.wolfEnergyDecay + 50

\* C24, as stated: one update() of a world that holds a wolf and a sheep next
\* to it (the wolf passing its age and energy check and staying below the
\* reproduction threshold) leaves the wolf on the cell the sheep had, the old
\* cell of the wolf empty, no sheep, and the wolf with its energy minus
\* wolfEnergyDecay plus 50, whichever of the two has the lower cell index.
C24_WolfEatsNeighbourSheep ==
    updateReturned =>
        \A wolf, sheep \in DOMAIN world.typeGrid :
            huntCase(wolf, sheep) => hunted(wolf, sheep)

\* C24, amended: the same, for a wolf with a lower cell index than the sheep
\* (the loop of update() reaches the wolf before the sheep has moved).
C24_WolfScannedFirstEatsNeighbourSheep ==
    updateReturned =>
        \A wolf, sheep \in DOMAIN world.typeGrid :
            (huntCase(wolf, sheep) /\ wolf < sheep) => hunted(wolf, sheep)

\* C24, its case: update() has returned on a world that held a wolf and, on a
\* cell of a higher index around it, a sheep, and the wolf has eaten it.
C24_Witness ==
    /\ updateReturned
    /\ \E wolf, sheep \in DOMAIN world.typeGrid :
            huntCase(wolf, sheep) /\ wolf < sheep /\ hunted(wolf, sheep)

\* the latest pass of the loop of update() was an updateSheep(i), in a world
\* without wolves, of a sheep that passes its age and energy check and has an
\* EMPTY or GRASS cell among the 8 around it
sheepMoveCase ==
    /\ world # NULL /\ pc = "update"
    /\ last.kind = "updateSheep"
    /\ last.index = world.i - 1
    /\ cellsOfType(gridBefore, ENTITY_WOLF) = {}
    /\ gridBefore.ageGrid[last.index] + 1 <= gridBefore.config.sheepLifeExpectancy
    /\ gridBefore.energyGrid[last.index] - gridBefore.config.sheepEnergyDecay > 0
    /\ \E n \in Range(getNeighbors(gridBefore, last.index, 1)) :
            gridBefore.typeGrid[n] \in {ENTITY_EMPTY, ENTITY_GRASS}

\* the energy of the sheep of the latest updateSheep(i) after its move
sheepEnergyAfterMove ==
    gridBefore.energyGrid[last.index] - gridBefore.config.sheepEnergyDecay
        + (IF last.target \in DOMAIN gridBefore.typeGrid
              /\ gridBefore.typeGrid[last.target] = ENTITY_GRASS THEN 20 ELSE 0)

\* the sheep is on one EMPTY or GRASS cell of the 8 around its cell, which is
\* EMPTY now, no other cell has changed, and its energy is the energy after
\* the move
sheepMoved ==
    /\ last.outcome = "moved"
    /\ last.target \in Range(getNeighbors(gridBefore, last.index, 1))
    /\ gridBefore.typeGrid[last.target] \in {ENTITY_EMPTY, ENTITY_GRASS}
    /\ world.typeGrid[last.target] = ENTITY_SHEEP
    /\ world.typeGrid[last.index] = ENTITY_EMPTY
    /\ \A c \in DOMAIN world.typeGrid \ {last.index, last.target} :
            world.typeGrid[c] = gridBefore.typeGrid[c]
    /\ world.energyGrid[last.target] = sheepEnergyAfterMove

\* in a world without wolves no updateSheep(i) of an update() is called on the
\* cell an earlier updateSheep of it moved its sheep to
sheepActOnce ==
    (world # NULL /\ tickStart # NULL /\ cellsOfType(tickStart, ENTITY_WOLF) = {}) =>
        \A k, l \in 1..Len(log) :
            (k < l /\ log[k].kind = "updateSheep" /\ log[l].kind = "updateSheep")
                => log[l].index # log[k].target

phaseOf(entry) ==
    IF entry.kind = "grass" THEN 1
    ELSE IF entry.kind \in {"sheep", "skipped"} THEN 2 ELSE 3

\* the entries of the log of the running tick that are updates of the kind
updatesOf(kind) == {k \in 1..Len(log) : log[k].kind = kind}

\* the entries of the log whose update has queued a newborn
spawnsOf(kind) ==
    {k \in updatesOf(kind) : log[k].result.alive /\ log[k].result.spawn # NULL}

\* C26: within one tick() the grass updates and the commit of the grass
\* spawns precede every sheep update, and the sheep updates and the commit of
\* the newborn sheep precede every wolf update: a sheep update finds the cell
\* of every grass spawn of the tick occupied, and a wolf update finds every
\* sheep that lives on the cell its update of this tick left it on, unless a
\* wolf has eaten it there, and the cell of every newborn sheep occupied.
C26_PhasesInOrder ==
    pc \in {"grass", "sheep", "wolves"} =>
        /\ \A k, l \in 1..Len(log) : k < l => phaseOf(log[k]) <= phaseOf(log[l])
        /\ pc = "grass" => updatesOf("sheep") = {} /\ updatesOf("wolf") = {}
        /\ pc = "sheep" => allGrass = << >> /\ newGrass = << >> /\ updatesOf("wolf") = {}
        /\ pc = "wolves" => /\ allGrass = << >> /\ newGrass = << >>
                            /\ allSheep = << >> /\ newSheep = << >>
        /\ last.kind = "sheep" =>
              \A k \in spawnsOf("grass") :
                  getType(gridBefore, log[k].result.spawn.x, log[k].result.spawn.y)
                      # EMPTY
        /\ last.kind = "wolf" =>
              /\ \A k \in spawnsOf("sheep") :
                    getType(gridBefore, log[k].result.spawn.x, log[k].result.spawn.y)
                        # EMPTY
              /\ \A k \in updatesOf("sheep") :
                    log[k].result.alive =>
                        LET sheep == log[k].result.ent
                        IN  \/ get(gridBefore, sheep.x, sheep.y) = sheep
                            \/ \E j \in updatesOf("wolf") :
                                  /\ j < Len(log)
                                  /\ log[j].result.ateSheepAt = Pos(sheep.x, sheep.y)

\* C26, its case: in one tick grass has spread to an empty cell, a sheep has
\* eaten the new grass and bred, and a wolf has eaten the newborn sheep.
C26_Witness ==
    /\ pc = "wolves"
    /\ \E g \in spawnsOf("grass"), s \in spawnsOf("sheep"), w \in updatesOf("wolf") :
          /\ getType(tickStart, log[g].result.spawn.x, log[g].result.spawn.y) = EMPTY
          /\ log[s].result.ateGrassAt =
                Pos(log[g].result.spawn.x, log[g].result.spawn.y)
          /\ getType(tickStart, log[s].result.spawn.x, log[s].result.spawn.y) = EMPTY
          /\ log[w].result.alive
          /\ log[w].result.ateSheepAt =
                Pos(log[s].result.spawn.x, log[s].result.spawn.y)

\* the newborns of a queue that target the cell
targeting(queue, p) == {k \in 1..Len(queue) : queue[k].x = p.x /\ queue[k].y = p.y}

\* the least of a set of numbers that is not empty
Least(S) == CHOOSE k \in S : \A l \in S : k <= l

\* from the grid before a commit and the queue to the grid after it: an
\* occupied cell keeps its occupant, an empty cell no newborn targets stays
\* empty, and an empty cell that newborns target holds the first of them
committed(before, queue, after) ==
    \A p \in AllCells :
        IF getType(before, p.x, p.y) # EMPTY
        THEN /\ getType(after, p.x, p.y) = getType(before, p.x, p.y)
             /\ get(after, p.x, p.y) = get(before, p.x, p.y)
        ELSE IF targeting(queue, p) = {}
             THEN getType(after, p.x, p.y) = EMPTY /\ get(after, p.x, p.y) = NULL
             ELSE /\ get(after, p.x, p.y) = queue[Least(targeting(queue, p))]
                  /\ getType(after, p.x, p.y) = queue[Least(targeting(queue, p))].type

\* C27: the commit of the newborns of a phase writes a queued grass, sheep or
\* wolf only on a cell that is EMPTY when its turn comes and drops it
\* otherwise: the occupant of a cell is never replaced, and of the newborns
\* that target one empty cell the one queued first is placed.
C27_CommitNeverOverwrites ==
    [][/\ (pc = "grass" /\ pc' = "sheep") => committed(engine.grid, newGrass, engine'.grid)
       /\ (pc = "sheep" /\ pc' = "wolves") =>
                committed(engine.grid, newSheep, engine'.grid)
       /\ (pc = "wolves" /\ pc' = "idle") =>
                committed(engine.grid, newWolves, engine'.grid)]_vars

\* C27, its case: the grass loop is over and two grass spawns are queued for
\* the same empty cell.
C27_Witness ==
    /\ pc = "grass" /\ allGrass = << >>
    /\ \E p \in AllCells :
          /\ getType(engine.grid, p.x, p.y) = EMPTY
          /\ Cardinality(targeting(newGrass, p)) >= 2

grassSpawned ==
    /\ log # << >> /\ last.kind = "grass"
    /\ last.result.alive /\ last.result.spawn # NULL

chebyshev(p, q) == IF Abs(p.x - q.x) >= Abs(p.y - q.y) THEN Abs(p.x - q.x) ELSE Abs(p.y - q.y)

\* C28: a grass spawn returned by updateGrass lies on a cell of the grid that
\* is EMPTY when the update is made, is not the parent's cell, and is at
\* Manhattan distance <= config.grass.spreadRadius from the parent, for a
\* spreadRadius of 0, 1 and more.
C28_GrassSpawnWithinSpreadRadius ==
    grassSpawned =>
        /\ isValidPosition(last.result.spawn.x, last.result.spawn.y)
        /\ getType(gridBefore, last.result.spawn.x, last.result.spawn.y) = EMPTY
        /\ Pos(last.result.spawn.x, last.result.spawn.y) # Pos(last.before.x, last.before.y)
        /\ manhattan(last.result.spawn, last.before) <= engine.config.grass.spreadRadius

\* C28, what updateGrass keeps: the spawn is on an EMPTY cell of the grid other
\* than the parent's; with a spreadRadius of 0 or 1 it is one of the 8
\* neighbouring cells, with a larger one it is at Manhattan distance <=
\* spreadRadius.
C28_GrassSpawnNeighbourOrWithinRadius ==
    grassSpawned =>
        /\ isValidPosition(last.result.spawn.x, last.result.spawn.y)
        /\ getType(gridBefore, last.result.spawn.x, last.result.spawn.y) = EMPTY
        /\ Pos(last.result.spawn.x, last.result.spawn.y) # Pos(last.before.x, last.before.y)
        /\ IF engine.config.grass.spreadRadius <= 1
           THEN chebyshev(last.result.spawn, last.before) = 1
           ELSE manhattan(last.result.spawn, last.before) <= engine.config.grass.spreadRadius

\* C28, the failing cases: a spawn on a diagonal neighbour with spreadRadius 1,
\* and a spawn with spreadRadius 0.
C28_SpawnBeyondRadius ==
    /\ grassSpawned
    /\ manhattan(last.result.spawn, last.before) > engine.config.grass.spreadRadius

animalUpdates == {i \in 1..Len(log) : log[i].kind \in {"sheep", "wolf"}}
breedThresholdOf(kind) ==
    IF kind = "sheep" THEN engine.config.sheep.breedThreshold
    ELSE engine.config.wolf.breedThreshold
ateAtOf(entry) ==
    IF entry.kind = "sheep" THEN entry.result.ateGrassAt ELSE entry.result.ateSheepAt
\* the update ate and the meal brought foodEaten to breedThreshold
reachedThreshold(entry) ==
    /\ entry.result.alive /\ ateAtOf(entry) # NULL
    /\ entry.before.foodEaten + 1 >= breedThresholdOf(entry.kind)
animalsOnGrid(g) ==
    {i \in 1..Len(getAllEntities(g)) : getAllEntities(g)[i].type \in {SHEEP, WOLF}}

\* C29: an update in which a sheep or wolf eats and its foodEaten reaches
\* breedThreshold returns the animal with foodEaten 0, with or without a
\* newborn, and the reset stays when the newborn is dropped at the commit;
\* after an update a living animal has foodEaten < breedThreshold, and so has
\* every sheep and wolf on the grid.
C29_FoodEatenResetAtThreshold ==
    /\ \A i \in animalUpdates :
          /\ reachedThreshold(log[i]) => log[i].result.ent.foodEaten = 0
          /\ log[i].result.alive =>
                log[i].result.ent.foodEaten < breedThresholdOf(log[i].kind)
    /\ \A i \in animalsOnGrid(engine.grid) :
          LET animal == getAllEntities(engine.grid)[i]
          IN  animal.foodEaten <
                breedThresholdOf(IF animal.type = SHEEP THEN "sheep" ELSE "wolf")

\* the newborn of the i-th update is not the one its cell holds after the
\* commit: the cell holds an older entity or another type, or an earlier update
\* of the phase queued a newborn for the same cell
droppedAtCommit(i) ==
    LET newborn == log[i].result.spawn
        holder == get(engine.grid, newborn.x, newborn.y)
    IN  \/ holder # NULL /\ (holder.type # newborn.type \/ holder.age > 0)
        \/ \E j \in animalUpdates :
              /\ j < i /\ log[j].kind = log[i].kind
              /\ log[j].result.alive /\ log[j].result.spawn # NULL
              /\ Pos(log[j].result.spawn.x, log[j].result.spawn.y)
                    = Pos(newborn.x, newborn.y)

\* C29, its case: the newborn sheep have just been committed; a sheep ate, its
\* foodEaten reached breedThreshold and its newborn was dropped, and the sheep
\* is on the grid with foodEaten 0.
C29_Witness ==
    /\ pc = "wolves"
    /\ \A i \in animalUpdates : log[i].kind = "sheep"
    /\ \E i \in animalUpdates :
          /\ reachedThreshold(log[i])
          /\ log[i].result.spawn # NULL
          /\ droppedAtCommit(i)
          /\ get(engine.grid, log[i].result.ent.x, log[i].result.ent.y) = log[i].result.ent
          /\ log[i].result.ent.foodEaten = 0

\* C29, its other case: a sheep or wolf ate, its foodEaten reached
\* breedThreshold and no empty cell was there for a newborn.
C29_WitnessNoPlacement ==
    \E i \in animalUpdates :
        /\ reachedThreshold(log[i])
        /\ log[i].result.spawn = NULL
        /\ log[i].result.ent.foodEaten = 0

sheepUpdated == log # << >> /\ last.kind = "sheep"
sheepFrom == Pos(last.before.x, last.before.y)
sheepTo == Pos(last.result.ent.x, last.result.ent.y)
grassAround(g, p) ==
    \E q \in AllCells : chebyshev(q, p) = 1 /\ getType(g, q.x, q.y) = GRASS
oneCloser(a, b) == IF b > a THEN a + 1 ELSE IF b < a THEN a - 1 ELSE a
\* the sheep survived, none of its 8 neighbours holds Grass and there is Grass
\* within grazingRadius
stepTowardCase ==
    /\ sheepUpdated /\ last.result.alive
    /\ ~grassAround(gridBefore, sheepFrom)
    /\ findClosestInRadius(gridBefore, sheepFrom.x, sheepFrom.y,
                           engine.config.sheep.grazingRadius, GRASS) # NULL
stepCell ==
    LET closestGrass == findClosestInRadius(gridBefore, sheepFrom.x, sheepFrom.y,
                                            engine.config.sheep.grazingRadius, GRASS)
    IN  Pos(oneCloser(sheepFrom.x, closestGrass.entity.x),
            oneCloser(sheepFrom.y, closestGrass.entity.y))

\* C30: updateSheep returns a non-null ateGrassAt exactly when the sheep
\* survives its death checks and one of its 8 neighbouring cells holds Grass
\* at the update; when it steps toward the closest Grass in grazingRadius the
\* step cell is not Grass, and the sheep moves onto it if it is EMPTY and stays
\* otherwise; a sheep never moves onto a Sheep or a Wolf, nor further than
\* Chebyshev distance 1.
C30_SheepEatsIffGrassAdjacent ==
    sheepUpdated =>
        /\ last.result.ateGrassAt # NULL
              <=> (last.result.alive /\ grassAround(gridBefore, sheepFrom))
        /\ stepTowardCase =>
              /\ getType(gridBefore, stepCell.x, stepCell.y) # GRASS
              /\ IF getType(gridBefore, stepCell.x, stepCell.y) = EMPTY
                 THEN sheepTo = stepCell
                 ELSE sheepTo = sheepFrom
        /\ sheepTo # sheepFrom =>
              getType(gridBefore, sheepTo.x, sheepTo.y) \in {EMPTY, GRASS}
        /\ chebyshev(sheepTo, sheepFrom) <= 1

\* C30, its case: a sheep with no Grass on its 8 neighbours and Grass further
\* away has moved onto the EMPTY step cell without eating.
C30_Witness ==
    /\ stepTowardCase
    /\ getType(gridBefore, stepCell.x, stepCell.y) = EMPTY
    /\ sheepTo = stepCell /\ sheepTo # sheepFrom
    /\ last.result.ateGrassAt = NULL

\* C30, its other case: the step cell holds a Sheep or a Wolf and the sheep has
\* stayed in place.
C30_WitnessBlocked ==
    /\ stepTowardCase
    /\ getType(gridBefore, stepCell.x, stepCell.y) \in {SHEEP, WOLF}
    /\ sheepTo = sheepFrom

wolfUpdated == log # << >> /\ last.kind = "wolf"
wolfFrom == Pos(last.before.x, last.before.y)
wolfTo == Pos(last.result.ent.x, last.result.ent.y)
detectedSheep ==
    findClosestInRadius(gridBefore, wolfFrom.x, wolfFrom.y,
                        engine.config.wolf.huntingRadius, SHEEP)
huntStep ==
    Pos(oneCloser(wolfFrom.x, detectedSheep.entity.x),
        oneCloser(wolfFrom.y, detectedSheep.entity.y))
wolvesAllAround(g, p) ==
    \A q \in AllCells : chebyshev(q, p) = 1 => getType(g, q.x, q.y) = WOLF

\* C31: a wolf that survives its update stays on its cell only when the step
\* cell toward its closest detected sheep holds a Wolf or, with no sheep
\* detected, when every neighbour on the grid holds a Wolf; otherwise it moves
\* exactly one cell (Chebyshev distance 1) onto a cell of the grid that holds
\* EMPTY, GRASS or SHEEP; the step toward a detected sheep is on the grid.
C31_WolfStaysOnlyBlockedByWolves ==
    (wolfUpdated /\ last.result.alive) =>
        IF detectedSheep # NULL
        THEN /\ isValidPosition(huntStep.x, huntStep.y)
             /\ chebyshev(huntStep, wolfFrom) = 1
             /\ IF getType(gridBefore, huntStep.x, huntStep.y) = WOLF
                THEN wolfTo = wolfFrom
                ELSE wolfTo = huntStep
        ELSE IF wolvesAllAround(gridBefore, wolfFrom)
             THEN wolfTo = wolfFrom
             ELSE /\ chebyshev(wolfTo, wolfFrom) = 1
                  /\ isValidPosition(wolfTo.x, wolfTo.y)
                  /\ getType(gridBefore, wolfTo.x, wolfTo.y) \in {EMPTY, GRASS, SHEEP}

\* C31, its case: the step cell toward the detected sheep holds a Wolf and the
\* wolf has stayed on its cell.
C31_Witness ==
    /\ wolfUpdated /\ last.result.alive
    /\ detectedSheep # NULL
    /\ getType(gridBefore, huntStep.x, huntStep.y) = WOLF
    /\ wolfTo = wolfFrom

\* C31, its other cases: no sheep is detected and every neighbour holds a Wolf;
\* a wolf has moved onto a cell holding GRASS.
C31_WitnessSurrounded ==
    /\ wolfUpdated /\ last.result.alive
    /\ detectedSheep = NULL
    /\ wolvesAllAround(gridBefore, wolfFrom)
    /\ wolfTo = wolfFrom

C31_WitnessOntoGrass ==
    /\ wolfUpdated /\ last.result.alive
    /\ wolfTo # wolfFrom
    /\ getType(gridBefore, wolfTo.x, wolfTo.y) = GRASS

held(g, t) == Cardinality({p \in AllCells : getType(g, p.x, p.y) = t})
\* the updates of the kind in the log of the running tick that returned dead
deathsOf(kind) == Cardinality({k \in updatesOf(kind) : ~log[k].result.alive})
\* the newborns of the queue that the commit places: one for every EMPTY cell
\* that newborns target
newbornsPlaced(g, queue) ==
    Cardinality({p \in AllCells :
                    getType(g, p.x, p.y) = EMPTY /\ targeting(queue, p) # {}})
\* the update a step of a loop has just logged
logged == log'[Len(log')]
lost(alive) == IF alive THEN 0 ELSE 1

\* C32: during tick() a wolf leaves the grid only by its own death and a sheep
\* only by its own death or under a wolf that registered it as eaten: the
\* grass phase leaves the animals alone; a sheep update takes one sheep off the
\* grid if it died and none otherwise, and a surviving sheep is always written
\* on its cell; a wolf update takes one wolf off if it died and one sheep off if
\* ateSheepAt is set; the commits add the newborns placed.  Over the sheep
\* phase sheep_after = sheep_before - deaths + newborns placed, and over the
\* tick wolves_after = wolves_before - deaths + newborns placed.
C32_AnimalsLeaveOnlyDeadOrEaten ==
    [][/\ pc = "grass" =>
            /\ held(engine'.grid, SHEEP) = held(engine.grid, SHEEP)
            /\ held(engine'.grid, WOLF) = held(engine.grid, WOLF)
       /\ (pc = "sheep" /\ allSheep # << >>) =>
            /\ held(engine'.grid, WOLF) = held(engine.grid, WOLF)
            /\ IF logged.kind = "skipped"
               THEN held(engine'.grid, SHEEP) = held(engine.grid, SHEEP)
               ELSE /\ held(engine'.grid, SHEEP)
                        = held(engine.grid, SHEEP) - lost(logged.result.alive)
                    /\ logged.result.alive =>
                        get(engine'.grid, logged.result.ent.x, logged.result.ent.y)
                            = logged.result.ent
       /\ (pc = "sheep" /\ allSheep = << >>) =>
            /\ held(engine'.grid, WOLF) = held(engine.grid, WOLF)
            /\ held(engine'.grid, SHEEP)
                = held(engine.grid, SHEEP) + newbornsPlaced(engine.grid, newSheep)
            /\ held(engine'.grid, SHEEP)
                = held(tickStart, SHEEP) - deathsOf("sheep")
                    + newbornsPlaced(engine.grid, newSheep)
       /\ (pc = "wolves" /\ allWolves # << >>) =>
            /\ held(engine'.grid, WOLF)
                = held(engine.grid, WOLF) - lost(logged.result.alive)
            /\ held(engine'.grid, SHEEP)
                = held(engine.grid, SHEEP) - lost(logged.result.ateSheepAt = NULL)
            /\ logged.result.alive =>
                get(engine'.grid, logged.result.ent.x, logged.result.ent.y)
                    = logged.result.ent
       /\ (pc = "wolves" /\ allWolves = << >>) =>
            /\ held(engine'.grid, SHEEP) = held(engine.grid, SHEEP)
            /\ held(engine'.grid, WOLF)
                = held(tickStart, WOLF) - deathsOf("wolf")
                    + newbornsPlaced(engine.grid, newWolves)]_vars

\* C32, its case: the wolf loop of a tick is over; a wolf died, another ate a
\* sheep and queued a newborn, and a sheep died in the sheep phase.
C32_Witness ==
    /\ pc = "wolves" /\ allWolves = << >>
    /\ deathsOf("wolf") >= 1 /\ deathsOf("sheep") >= 1
    /\ \E k \in updatesOf("wolf") :
          /\ log[k].result.alive /\ log[k].result.ateSheepAt # NULL
          /\ log[k].result.spawn # NULL

\* the updates of the kind in the log of the running tick that ate
mealsOf(kind) == {k \in updatesOf(kind) : log[k].result.alive /\ ateAtOf(log[k]) # NULL}
\* the cell of every meal of the kind holds the animal that ate there
eatersHold(kind) ==
    \A k \in mealsOf(kind) :
        get(engine.grid, ateAtOf(log[k]).x, ateAtOf(log[k]).y) = log[k].result.ent
\* no two meals of the kind on one cell
mealsApart(kind) ==
    \A k \in mealsOf(kind), l \in mealsOf(kind) :
        k # l => ateAtOf(log[k]) # ateAtOf(log[l])

\* C33: within one tick() no prey is consumed twice: for the rest of the sheep
\* phase the cell of a grass a sheep ate holds that sheep, and for the rest of
\* the wolf phase the cell of a sheep a wolf ate holds that wolf, which is what
\* every later update of the phase reads; no two sheep updates of a tick
\* report the same ateGrassAt and no two wolf updates the same ateSheepAt.
C33_NoPreyEatenTwice ==
    /\ pc = "sheep" => eatersHold("sheep")
    /\ pc = "wolves" => eatersHold("wolf")
    /\ mealsApart("sheep") /\ mealsApart("wolf")

\* the log holds a meal of the kind followed by the update of an animal of the
\* kind that was next to the cell of the meal
laterNeighbour(kind) ==
    \E k \in mealsOf(kind), l \in updatesOf(kind) :
        /\ k < l
        /\ chebyshev(Pos(log[l].before.x, log[l].before.y), ateAtOf(log[k])) = 1

\* C33, its case: in one tick a sheep ate a grass and a sheep next to that
\* cell was updated later, and a wolf ate a sheep and a wolf next to that cell
\* was updated later.
C33_Witness ==
    /\ pc = "wolves"
    /\ laterNeighbour("sheep")
    /\ laterNeighbour("wolf")

\* the kinds the configuration seeds none of
absentKinds(config) ==
    {kind \in {"grass", "sheep", "wolves"} :
        (IF kind = "grass" THEN config.grass.initialCount
         ELSE IF kind = "sheep" THEN config.sheep.initialCount
         ELSE config.wolf.initialCount) = 0}

\* C34: with an initialCount of 0, initialize() returns with the count of that
\* kind 0, hasEnded() false and getExtinctPopulation() null, and the first
\* tick() after it returns with hasEnded() true: a loop that calls tick() until
\* hasEnded() stops after one tick.
C34_AbsentKindEndsFirstTick ==
    [][/\ (pc = "seed" /\ pc' = "idle") =>
            /\ \A kind \in absentKinds(engine.config) :
                    getPopulationCounts(engine')[kind] = 0
            /\ ~hasEnded(engine')
            /\ getExtinctPopulation(engine') = "null"
       /\ (pc = "wolves" /\ pc' = "idle" /\ getTick(engine') = 1
            /\ absentKinds(engine.config) # {}) => hasEnded(engine')]_vars

\* C34, its case: the first tick() after an initialize() that seeded no wolves
\* has returned with grass and sheep on the grid, and hasEnded() is true.
C34_Witness ==
    /\ pc = "idle" /\ getTick(engine) = 1
    /\ absentKinds(engine.config) = {"wolves"}
    /\ getPopulationCounts(engine).grass > 0
    /\ getPopulationCounts(engine).sheep > 0
    /\ hasEnded(engine)

Kinds == {"grass", "sheep", "wolves"}
typeOfKind(kind) == IF kind = "grass" THEN GRASS ELSE IF kind = "sheep" THEN SHEEP ELSE WOLF

\* C35: a kind whose count is 0 when a tick() starts (at the end of the tick
\* before, or after the seeding) has none of its entities on the grid at any
\* step of the tick, and its count is 0 when the tick ends.
C35_NoKindReappears ==
    [][/\ pc \in {"grass", "sheep", "wolves"} =>
            \A kind \in Kinds :
                held(tickStart, typeOfKind(kind)) = 0
                    => held(engine'.grid, typeOfKind(kind)) = 0
       /\ (pc = "wolves" /\ pc' = "idle") =>
            \A kind \in Kinds :
                getPopulationCounts(engine)[kind] = 0
                    => getPopulationCounts(engine')[kind] = 0]_vars

\* C35, its case: the first tick ended with grass and wolves and without sheep,
\* and the second tick has ended with grass and wolves on the grid and no sheep.
C35_Witness ==
    /\ pc = "idle" /\ getTick(engine) = 2
    /\ \E i \in 1..Len(getHistory(engine)) :
          /\ getHistory(engine)[i].tick = 1
          /\ getHistory(engine)[i].sheep = 0
          /\ getHistory(engine)[i].grass > 0
          /\ getHistory(engine)[i].wolves > 0
    /\ getPopulationCounts(engine).sheep = 0
    /\ getPopulationCounts(engine).grass > 0
    /\ getPopulationCounts(engine).wolves > 0

lifeExpectancyOf(type) ==
    IF type = GRASS THEN engine.config.grass.lifeExpectancy
    ELSE IF type = SHEEP THEN engine.config.sheep.lifeExpectancy
    ELSE engine.config.wolf.lifeExpectancy
starvationTimeOf(type) ==
    IF type = SHEEP THEN engine.config.sheep.starvationTime
    ELSE engine.config.wolf.starvationTime
entityUpdates == {k \in 1..Len(log) : log[k].kind \in UpdateKinds}

\* C36: every entity on the grid has age < 1.2 * lifeExpectancy of its kind
\* (5 * age < 6 * lifeExpectancy), and every sheep and wolf has
\* ticksSinceLastMeal < starvationTime; every update of a tick adds 1 to the
\* age of its entity, and 1 to the ticksSinceLastMeal of an animal that does
\* not eat.
C36_AgeAndHungerBounded ==
    /\ \A i \in 1..Len(getAllEntities(engine.grid)) :
          LET entity == getAllEntities(engine.grid)[i]
          IN  /\ 5 * entity.age < 6 * lifeExpectancyOf(entity.type)
              /\ entity.type \in {SHEEP, WOLF} =>
                    entity.ticksSinceLastMeal < starvationTimeOf(entity.type)
    /\ \A k \in entityUpdates :
          /\ log[k].result.ent.age = log[k].before.age + 1
          /\ (log[k].kind \in {"sheep", "wolf"} /\ ateAtOf(log[k]) = NULL) =>
                log[k].result.ent.ticksSinceLastMeal
                    = log[k].before.ticksSinceLastMeal + 1

\* C36, its case: in one tick an entity that reached 1.2 * lifeExpectancy died
\* of old age and an animal that reached starvationTime died of starvation.
C36_Witness ==
    /\ \E k \in entityUpdates :
          /\ ~log[k].result.alive /\ log[k].result.cause = "age"
          /\ 5 * (log[k].before.age + 1)
                >= 6 * lifeExpectancyOf(log[k].before.type)
    /\ \E k \in entityUpdates :
          /\ ~log[k].result.alive /\ log[k].result.cause = "starvation"

\* the wolf update moved the wolf onto a cell that held Grass on the grid g
trampled(g, entry) ==
    /\ entry.kind = "wolf" /\ entry.result.alive
    /\ getType(g, entry.result.ent.x, entry.result.ent.y) = GRASS
    /\ Pos(entry.result.ent.x, entry.result.ent.y) # Pos(entry.before.x, entry.before.y)

\* C37: the wolf update that moves a wolf onto a cell holding Grass leaves the
\* Wolf on that cell and no grass record, one grass less on the grid, and the
\* wolf with its foodEaten as before and its ticksSinceLastMeal one higher, no
\* meal being registered; no step of the sheep and wolf phases puts grass on a
\* cell, so the cell does not get its grass back when the wolf leaves it.
C37_WolfTramplesGrass ==
    [][/\ (pc = "wolves" /\ allWolves # << >> /\ trampled(engine.grid, logged)) =>
            /\ get(engine'.grid, logged.result.ent.x, logged.result.ent.y)
                    = logged.result.ent
            /\ getType(engine'.grid, logged.result.ent.x, logged.result.ent.y) = WOLF
            /\ held(engine'.grid, GRASS) = held(engine.grid, GRASS) - 1
            /\ logged.result.ateSheepAt = NULL
            /\ logged.result.ent.foodEaten = logged.before.foodEaten
            /\ logged.result.ent.ticksSinceLastMeal
                    = logged.before.ticksSinceLastMeal + 1
       /\ pc \in {"sheep", "wolves"} =>
            \A p \in AllCells :
                getType(engine'.grid, p.x, p.y) = GRASS
                    => getType(engine.grid, p.x, p.y) = GRASS]_vars

\* C37, its case: a wolf of age 1 or more, which has moved before, has just
\* walked onto a cell that held Grass, hunting or wandering.
C37_Witness ==
    /\ pc = "wolves" /\ wolfUpdated
    /\ trampled(gridBefore, last)
    /\ last.before.age >= 1
    /\ getType(engine.grid, wolfTo.x, wolfTo.y) = WOLF
    /\ getType(engine.grid, wolfFrom.x, wolfFrom.y) = EMPTY

\* C38: every record of the grid is stored under the key of the cell its x and
\* y fields name, a cell has at most one record, and no record is stored under
\* two cells.
C38_RecordsKnowTheirCell ==
    LET records == engine.grid.entities
    IN  /\ \A i \in 1..Len(records) :
              records[i].val # NULL =>
                  /\ records[i].key = toKey(records[i].val.x, records[i].val.y)
                  /\ get(engine.grid, records[i].val.x, records[i].val.y) = records[i].val
        /\ \A i \in 1..Len(records), j \in 1..Len(records) :
              i # j => /\ records[i].key # records[j].key
                       /\ records[i].val # records[j].val

\* C38, its case: in a tick a sheep has moved, and a wolf has just moved onto
\* the cell of a sheep and eaten it; the wolf's record is the one of its new
\* cell and its old cell has none.
C38_Witness ==
    /\ pc = "wolves" /\ wolfUpdated /\ last.result.alive
    /\ last.result.ateSheepAt # NULL
    /\ get(engine.grid, wolfTo.x, wolfTo.y) = last.result.ent
    /\ get(engine.grid, wolfFrom.x, wolfFrom.y) = NULL
    /\ \E k \in updatesOf("sheep") :
          /\ log[k].result.alive
          /\ Pos(log[k].result.ent.x, log[k].result.ent.y)
                # Pos(log[k].before.x, log[k].before.y)

statsAgree(w) ==
    /\ w.stats.grass = Cardinality(cellsOfType(w, ENTITY_GRASS))
    /\ w.stats.sheep = Cardinality(cellsOfType(w, ENTITY_SHEEP))
    /\ w.stats.wolf = Cardinality(cellsOfType(w, ENTITY_WOLF))

\* C39: after the construction of a World, after reset() and after update(),
\* stats.grass, stats.sheep and stats.wolf are the numbers of cells of typeGrid
\* that hold grass, sheep and wolves.
C39_StatsCountTheGrid ==
    (world # NULL /\ pc = "idle") => statsAgree(world)

\* C39, what holds: the stats are those of the grid when update() returns.
C39_StatsCountTheGridAfterUpdate ==
    updateReturned => statsAgree(world)

\* C39, the failing case: a World just constructed or reset that holds grass, a
\* sheep and a wolf, with stats of 0.
C39_SeededWithZeroStats ==
    /\ world # NULL /\ pc = "idle" /\ world.stats.tick = 0
    /\ Cardinality(cellsOfType(world, ENTITY_GRASS)) > 0
    /\ Cardinality(cellsOfType(world, ENTITY_SHEEP)) = 1
    /\ Cardinality(cellsOfType(world, ENTITY_WOLF)) = 1
    /\ world.stats.grass = 0 /\ world.stats.sheep = 0 /\ world.stats.wolf = 0

\* a pass of the loop of update() in which the animal of the cell bred
bredInStep ==
    /\ world # NULL /\ pc = "update" /\ Len(log') = Len(log) + 1
    /\ log'[Len(log')].birthSpot >= 0

\* the energy the parent has when it breeds, as energyGrid holds it after the
\* move: the energy of the cell, less the decay, plus the meal on the target
energyBeforeBreeding ==
    LET entry == log'[Len(log')]
        isSheep == entry.kind = "updateSheep"
        decayed == world.energyGrid[entry.index]
                     - (IF isSheep THEN world.config.sheepEnergyDecay
                                   ELSE world.config.wolfEnergyDecay)
        meal == IF isSheep /\ typeAt(world, entry.target) = ENTITY_GRASS THEN 20
                ELSE IF ~isSheep /\ typeAt(world, entry.target) = ENTITY_SHEEP THEN 50
                ELSE 0
    IN  Uint16(decayed + meal)

breedingCost == IF log'[Len(log')].kind = "updateSheep" THEN 30 ELSE 40

parentEnergyAfter == world'.energyGrid[log'[Len(log')].target]

\* C40: after a sheep (wolf) breeds, the energy energyGrid holds for the parent
\* is its energy before breeding less 30 (40), and is smaller than before,
\* whatever the reproduction threshold (>= 1).
C40_BreedingLowersParentEnergy ==
    [][bredInStep =>
         /\ parentEnergyAfter = energyBeforeBreeding - breedingCost
         /\ parentEnergyAfter < energyBeforeBreeding]_vars

\* C40, what holds: the energy held for the parent is the energy before
\* breeding less the cost modulo 2^16, and it is the plain difference, smaller
\* than before, when the threshold times 10 is at least the cost.
C40_BreedingCostsModulo ==
    [][bredInStep =>
         /\ parentEnergyAfter = Uint16(energyBeforeBreeding - breedingCost)
         /\ (IF log'[Len(log')].kind = "updateSheep"
             THEN world.config.sheepReproductionThreshold * 10
             ELSE world.config.wolfReproductionThreshold * 10) >= breedingCost
               => /\ parentEnergyAfter = energyBeforeBreeding - breedingCost
                  /\ parentEnergyAfter < energyBeforeBreeding]_vars

\* C40, the failing case: a sheep that bred with less than 30 of energy holds
\* more energy than before.
C40_ParentEnergyWrapped ==
    /\ world # NULL /\ pc = "update" /\ Len(log) > 0 /\ gridBefore # NULL
    /\ LET entry == log[Len(log)]
       IN  /\ entry.kind = "updateSheep" /\ entry.birthSpot >= 0
           /\ entry.index = gridBefore.i
           /\ world.energyGrid[entry.target] > 65000
           /\ gridBefore.energyGrid[entry.index] < 30

====
